---- MODULE Spec2Model ----
(***************************************************************************)
(* Capacity planner (src-tauri): the record store, the availability        *)
(* calculator, the priority-tiered proportional optimizer and the delete   *)
(* commands that invalidate the calculated-value cache.                    *)
(*                                                                         *)
(* Numbers.  The program computes in f64.  A finite value is modelled as   *)
(* an exact reduced fraction <<n, d>> with d > 0; rounding error is not    *)
(* modelled.  The non-finite values the code can produce are kept:         *)
(* NaN = <<0, 0>> (0.0 / 0.0), +inf = <<1, 0>>, -inf = <<-1, 0>>.          *)
(*                                                                         *)
(* Dates.  A stored date is a TEXT column.  It is modelled as a record     *)
(* [pos, ok]: pos is the string's rank in SQL text order (for a valid      *)
(* ISO date, its day number; day 0 is a Monday) and ok tells whether       *)
(* NaiveDate::parse_from_str accepts it.                                   *)
(***************************************************************************)
EXTENDS Integers, Sequences, FiniteSets, TLC

\* ------------------------------------------------------------------------
\* f64 arithmetic on exact fractions
\* ------------------------------------------------------------------------

Abs(n) == IF n < 0 THEN -n ELSE n

Sign(n) == IF n < 0 THEN -1 ELSE IF n > 0 THEN 1 ELSE 0

RECURSIVE Gcd(_, _)
Gcd(a, b) == IF b = 0 THEN a ELSE Gcd(b, a % b)

NaN == <<0, 0>>

IsNaN(x) == x[2] = 0 /\ x[1] = 0

IsFinite(x) == x[2] > 0

\* the fraction n/d (d > 0) in lowest terms
Norm(n, d) ==
    LET g == Gcd(Abs(n), d) IN <<n \div g, d \div g>>

R(n) == <<n, 1>>

Frac(n, d) == Norm(n, d)

Zero == <<0, 1>>

Hundred == <<100, 1>>

RAdd(x, y) ==
    IF IsNaN(x) \/ IsNaN(y) THEN NaN
    ELSE IF ~IsFinite(x) /\ ~IsFinite(y) THEN (IF x = y THEN x ELSE NaN)
    ELSE IF ~IsFinite(x) THEN x
    ELSE IF ~IsFinite(y) THEN y
    ELSE Norm(x[1] * y[2] + y[1] * x[2], x[2] * y[2])

RNeg(x) == <<-x[1], x[2]>>

RSub(x, y) == RAdd(x, RNeg(y))

RMul(x, y) ==
    IF IsNaN(x) \/ IsNaN(y) THEN NaN
    ELSE IF ~IsFinite(x) \/ ~IsFinite(y)
         THEN (IF x[1] = 0 \/ y[1] = 0 THEN NaN ELSE <<Sign(x[1]) * Sign(y[1]), 0>>)
    ELSE Norm(x[1] * y[1], x[2] * y[2])

RDiv(x, y) ==
    IF IsNaN(x) \/ IsNaN(y) THEN NaN
    ELSE IF ~IsFinite(x) THEN (IF ~IsFinite(y) THEN NaN
                               ELSE <<x[1] * (IF y[1] < 0 THEN -1 ELSE 1), 0>>)
    ELSE IF ~IsFinite(y) THEN Zero
    ELSE IF y[1] = 0 THEN (IF x[1] = 0 THEN NaN ELSE <<Sign(x[1]), 0>>)
    ELSE Norm(x[1] * y[2] * Sign(y[1]), x[2] * Abs(y[1]))

\* x < y as f64 compares: false whenever an operand is NaN
RLt(x, y) ==
    /\ ~IsNaN(x)
    /\ ~IsNaN(y)
    /\ x # y
    /\ IF ~IsFinite(x) THEN x[1] < 0
       ELSE IF ~IsFinite(y) THEN y[1] > 0
       ELSE x[1] * y[2] < y[1] * x[2]

RGt(x, y) == RLt(y, x)

RLe(x, y) == ~IsNaN(x) /\ ~IsNaN(y) /\ (x = y \/ RLt(x, y))

\* f64::min and f64::max: a NaN operand is ignored
RMin(x, y) == IF IsNaN(x) THEN y ELSE IF IsNaN(y) THEN x ELSE IF RLt(y, x) THEN y ELSE x

RMax(x, y) == IF IsNaN(x) THEN y ELSE IF IsNaN(y) THEN x ELSE IF RLt(x, y) THEN y ELSE x

\* ------------------------------------------------------------------------
\* sequences as tables
\* ------------------------------------------------------------------------

Range(s) == {s[i] : i \in 1..Len(s)}

RECURSIVE SumSeq(_)
SumSeq(s) == IF s = <<>> THEN Zero ELSE RAdd(s[1], SumSeq(Tail(s)))

RECURSIVE SumInt(_)
SumInt(s) == IF s = <<>> THEN 0 ELSE s[1] + SumInt(Tail(s))

RECURSIVE MapRows(_, _)
MapRows(Op(_), s) == IF s = <<>> THEN <<>> ELSE <<Op(s[1])>> \o MapRows(Op, Tail(s))

Perms(S) == {f \in [1..Cardinality(S) -> S] : \A i, j \in 1..Cardinality(S) : i # j => f[i] # f[j]}

\* SQL NULL in a REAL column, and None in an Option<i64> / Option<String> column
NULL == <<0, -1>>

None == 0


\* ------------------------------------------------------------------------
\* the record store (db/mod.rs run_migrations); every table is a sequence
\* of rows in rowid order
\* ------------------------------------------------------------------------

VARIABLES
    planning_periods,        \* rows [id, start_date, end_date]
    people,                  \* rows [id, available_hours_per_week, working_days, country_id]
    projects,                \* rows [id]
    project_requirements,    \* rows [id, project_id, planning_period_id, required_hours, priority]
    assignments,             \* rows [id, person_id, project_id, planning_period_id,
                             \*       productivity_factor, start_date, end_date,
                             \*       is_pinned, pinned_allocation_percentage,
                             \*       calculated_allocation_percentage,
                             \*       calculated_effective_hours, last_calculated_at]
    absences,                \* rows [id, person_id, start_date, end_date, days]
    holidays,                \* rows [id, country_id, start_date, end_date]
    person_job_assignments,  \* rows [id, person_id, job_id, planning_period_id]
    job_overhead_tasks,      \* rows [id, job_id, effort_hours, effort_period,
                             \*       is_optional, optional_weight]
    run,                     \* the invocations of optimize_assignments, by slot
    del,                     \* the delete command in flight
    clock,                   \* chrono::Utc::now(), counted in optimizer runs
    written,                 \* per slot: ids of the rows this invocation updated
    hist,                    \* calculated fields left by the last two completed runs
    ncmd,                    \* number of commands issued so far
    reply                    \* what the last command or function call returned

store == <<planning_periods, people, projects, project_requirements, assignments,
           absences, holidays, person_job_assignments, job_overhead_tasks>>

vars == <<planning_periods, people, projects, project_requirements, assignments,
          absences, holidays, person_job_assignments, job_overhead_tasks,
          run, del, clock, written, hist, ncmd, reply>>

Date(n) == [pos |-> n, ok |-> TRUE]

BadDate(n) == [pos |-> n, ok |-> FALSE]

\* SQL text comparison of two date columns
DateLe(a, b) == a.pos <= b.pos

DateGe(a, b) == a.pos >= b.pos

\* ------------------------------------------------------------------------
\* capacity/mod.rs: working days
\* ------------------------------------------------------------------------

WeekdayNames == <<"Mon", "Tue", "Wed", "Thu", "Fri", "Sat", "Sun">>

\* chrono Datelike::weekday of a day number (day 0 is a Monday)
weekday(d) == WeekdayNames[(d % 7) + 1]

\* A working_days column is a sequence of symbols: words ("Mon",
\* "InvalidDay", ...), the comma "," and the blank " ".
\* str::split(','): the pieces between the commas, empty ones included
Split(s) ==
    LET commas == SelectSeq([i \in 1..Len(s) |-> i], LAMBDA i : s[i] = ",")
        cuts == <<0>> \o commas \o <<Len(s) + 1>>
    IN [k \in 1..(Len(commas) + 1) |-> SubSeq(s, cuts[k] + 1, cuts[k + 1] - 1)]

\* str::trim: without the blanks at both ends
Trim(t) ==
    LET filled == {i \in 1..Len(t) : t[i] # " "}
    IN IF filled = {} THEN <<>>
       ELSE SubSeq(t, CHOOSE i \in filled : \A j \in filled : i <= j,
                      CHOOSE i \in filled : \A j \in filled : i >= j)

\* counting the recognised tokens only
parse_working_days_count_recognised(working_days) ==
    Len(SelectSeq(Split(working_days),
                  LAMBDA t : Len(Trim(t)) = 1 /\ Trim(t)[1] \in Range(WeekdayNames)))

parse_working_days_count(working_days) ==
    Len(SelectSeq(Split(working_days), LAMBDA t : Trim(t) # <<>>))

\* the weekdays of the tokens that are one of the seven abbreviations
parse_working_days_set(working_days) ==
    LET days == SelectSeq(Split(working_days),
                    LAMBDA t : Len(Trim(t)) = 1 /\ Trim(t)[1] \in Range(WeekdayNames))
    IN [i \in 1..Len(days) |-> Trim(days[i])[1]]

is_working_day(d, working_days_set) == weekday(d) \in Range(working_days_set)

\* ------------------------------------------------------------------------
\* capacity/mod.rs: calculate_person_available_hours
\* ------------------------------------------------------------------------

\* a loop that takes nobody for absent
AbsenceScanNone(abs, d) == "present"

\* the absence loop of one calendar day: "error" when a date fails to parse
\* before an absence covering the day is met
RECURSIVE AbsenceScan(_, _)
AbsenceScan(abs, d) ==
    IF abs = <<>> THEN "present"
    ELSE IF ~abs[1].start_date.ok \/ ~abs[1].end_date.ok THEN "error"
    ELSE IF d >= abs[1].start_date.pos /\ d <= abs[1].end_date.pos THEN "absent"
    ELSE AbsenceScan(Tail(abs), d)

\* the while loop over the days of one holiday's overlap with the period
RECURSIVE HolidayWalk(_, _, _, _)
HolidayWalk(current_date, overlap_end, working_days_set, abs) ==
    IF current_date > overlap_end THEN [ok |-> TRUE, n |-> 0]
    ELSE LET s == IF is_working_day(current_date, working_days_set)
                  THEN AbsenceScan(abs, current_date)
                  ELSE "skip"
         IN IF s = "error" THEN [ok |-> FALSE, n |-> 0]
            ELSE LET rest == HolidayWalk(current_date + 1, overlap_end, working_days_set, abs)
                 IN [ok |-> rest.ok, n |-> rest.n + (IF s = "present" THEN 1 ELSE 0)]

\* the for loop over the holidays fetched for the person's country
RECURSIVE HolidayDays(_, _, _, _, _)
HolidayDays(hs, start, end, working_days_set, abs) ==
    IF hs = <<>> THEN [ok |-> TRUE, n |-> 0]
    ELSE IF ~hs[1].start_date.ok \/ ~hs[1].end_date.ok THEN [ok |-> FALSE, n |-> 0]
    ELSE LET overlap_start == IF hs[1].start_date.pos > start THEN hs[1].start_date.pos ELSE start
             overlap_end   == IF hs[1].end_date.pos < end THEN hs[1].end_date.pos ELSE end
             w    == IF overlap_start <= overlap_end
                     THEN HolidayWalk(overlap_start, overlap_end, working_days_set, abs)
                     ELSE [ok |-> TRUE, n |-> 0]
             rest == HolidayDays(Tail(hs), start, end, working_days_set, abs)
         IN [ok |-> w.ok /\ rest.ok, n |-> w.n + rest.n]

\* every task taken for a weekly one
TaskHoursWeekly(task, total_weeks, working_days) == RMul(task.effort_hours, total_weeks)

TaskHours(task, total_weeks, working_days) ==
    IF task.effort_period = "weekly" THEN RMul(task.effort_hours, total_weeks)
    ELSE IF task.effort_period = "daily" THEN RMul(task.effort_hours, working_days)
    ELSE Zero

\* the overhead tasks of the person's jobs in the period, job by job
PersonTasks(person, planning_period) ==
    LET jas == SelectSeq(person_job_assignments,
                   LAMBDA ja : ja.person_id = person.id
                               /\ ja.planning_period_id = planning_period.id)
        TasksOf(ja) == SelectSeq(job_overhead_tasks, LAMBDA t : t.job_id = ja.job_id)
        F[i \in 0..Len(jas)] == IF i = 0 THEN <<>> ELSE F[i - 1] \o TasksOf(jas[i])
    IN F[Len(jas)]

\* lines 157-344, with the two parses of lines 163-164 already made
AvailableHoursWith(person, planning_period, working_days_count, working_days_set) ==
    IF ~planning_period.start_date.ok \/ ~planning_period.end_date.ok
    THEN [ok |-> FALSE]
    ELSE
    LET start == planning_period.start_date.pos
        end   == planning_period.end_date.pos
        total_days == (end - start) + 1
        total_weeks  == Frac(total_days, 7)
        working_days == RMul(total_weeks, R(working_days_count))
        hours_per_day == IF working_days_count > 0
                         THEN RDiv(person.available_hours_per_week, R(working_days_count))
                         ELSE Zero
        base_hours == RMul(working_days, hours_per_day)
        abs == SelectSeq(absences, LAMBDA a :
                   /\ a.person_id = person.id
                   /\ \/ DateGe(a.start_date, planning_period.start_date)
                         /\ DateLe(a.start_date, planning_period.end_date)
                      \/ DateGe(a.end_date, planning_period.start_date)
                         /\ DateLe(a.end_date, planning_period.end_date)
                      \/ DateLe(a.start_date, planning_period.start_date)
                         /\ DateGe(a.end_date, planning_period.end_date))
        total_absence_days == SumInt(MapRows(LAMBDA a : a.days, abs))
        absence_hours == RMul(R(total_absence_days), hours_per_day)
        hol == IF person.country_id # None
               THEN HolidayDays(SelectSeq(holidays, LAMBDA h :
                                    /\ h.country_id = person.country_id
                                    /\ DateLe(h.start_date, planning_period.end_date)
                                    /\ DateGe(h.end_date, planning_period.start_date)),
                                start, end, working_days_set, abs)
               ELSE [ok |-> TRUE, n |-> 0]
        holiday_hours == RMul(R(hol.n), hours_per_day)
        tasks == PersonTasks(person, planning_period)
        overhead_hours ==
            SumSeq(MapRows(LAMBDA t : IF t.is_optional THEN Zero
                                      ELSE TaskHours(t, total_weeks, working_days), tasks))
        optional_overhead_hours ==
            SumSeq(MapRows(LAMBDA t : IF t.is_optional
                                      THEN TaskHours(t, total_weeks, working_days)
                                      ELSE Zero, tasks))
        weighted_optional_overhead ==
            SumSeq(MapRows(LAMBDA t : IF t.is_optional
                                      THEN RMul(TaskHours(t, total_weeks, working_days),
                                                t.optional_weight)
                                      ELSE Zero, tasks))
        available_hours ==
            RMax(RSub(RSub(RSub(RSub(base_hours, absence_hours), holiday_hours),
                           overhead_hours), weighted_optional_overhead), Zero)
    IN IF ~hol.ok THEN [ok |-> FALSE]
       ELSE [ok |-> TRUE,
             available_hours |-> available_hours,
             base_hours |-> base_hours,
             absence_days |-> total_absence_days,
             absence_hours |-> absence_hours,
             holiday_days |-> hol.n,
             holiday_hours |-> holiday_hours,
             overhead_hours |-> overhead_hours,
             optional_overhead_hours |-> optional_overhead_hours]

\* the column is parsed once for the count and once for the set
calculate_person_available_hours(person, planning_period) ==
    CHOOSE result \in
        {AvailableHoursWith(person, planning_period, working_days_count, working_days_set) :
            working_days_count \in {parse_working_days_count(person.working_days)},
            working_days_set \in {parse_working_days_set(person.working_days)}} : TRUE

\* the allocation taken as a fraction, not as a percentage
effective_hours_of_fraction(available_hours, allocation_percentage, productivity_factor) ==
    RMul(RMul(available_hours, allocation_percentage), productivity_factor)

calculate_assignment_effective_hours(available_hours, allocation_percentage, productivity_factor) ==
    RMul(RMul(available_hours, RDiv(allocation_percentage, Hundred)), productivity_factor)

\* ------------------------------------------------------------------------
\* capacity/mod.rs: optimize_assignments_proportional, pure parts
\* ------------------------------------------------------------------------

\* HashMap::insert / collect(): the last entry of a key wins
LastIndex(keys, k) ==
    CHOOSE i \in 1..Len(keys) :
        /\ keys[i] = k
        /\ \A j \in 1..Len(keys) : keys[j] = k => j <= i

\* the people by id (lines 427-431 visit every person loaded)
PeopleMap(rows) ==
    [k \in {rows[i].id : i \in 1..Len(rows)} |->
        rows[LastIndex([i \in 1..Len(rows) |-> rows[i].id], k)]]

\* requirements_map: project_id -> the period's requirement of the project
RequirementsMap(rows) ==
    [k \in {rows[i].project_id : i \in 1..Len(rows)} |->
        rows[LastIndex([i \in 1..Len(rows) |-> rows[i].project_id], k)]]

\* "Group assignments by project": project_id -> its assignments, in row order
GroupByProject(asgs) ==
    [p \in {asgs[i].project_id : i \in 1..Len(asgs)} |->
        SelectSeq(asgs, LAMBDA a : a.project_id = p)]

\* a loop that leaves at the first key without requirement (break for continue)
ProjectsByPriorityStopAtMissing(keys, requirements_map) ==
    LET stop == {i \in 1..Len(keys) : keys[i] \notin DOMAIN requirements_map}
        n == IF stop = {} THEN Len(keys)
             ELSE (CHOOSE i \in stop : \A j \in stop : i <= j) - 1
    IN [i \in 1..n |-> <<requirements_map[keys[i]].priority, keys[i]>>]

\* projects_by_priority as pushed while iterating assignments_by_project.keys()
\* in the order keys; a key without requirement is skipped
ProjectsByPriority(keys, requirements_map) ==
    LET withReq == SelectSeq(keys, LAMBDA p : p \in DOMAIN requirements_map)
    IN [i \in 1..Len(withReq) |-> <<requirements_map[withReq[i]].priority, withReq[i]>>]

\* a comparator that sorts ascending (a.0.cmp(&b.0))
PriorityBeforeAscending(a, b) == a[1] < b[1]

\* the comparator of sort_by: TRUE when a must come before b
PriorityBefore(a, b) == a[1] > b[1]

\* slice::sort_by, a stable sort
RECURSIVE InsertSorted(_, _)
InsertSorted(sorted, x) ==
    IF sorted = <<>> THEN <<x>>
    ELSE IF PriorityBefore(x, sorted[1]) THEN <<x>> \o sorted
    ELSE <<sorted[1]>> \o InsertSorted(Tail(sorted), x)

RECURSIVE SortByPriority(_)
SortByPriority(s) ==
    IF s = <<>> THEN <<>>
    ELSE InsertSorted(SortByPriority(SubSeq(s, 1, Len(s) - 1)), s[Len(s)])

\* priority_groups: consecutive projects of equal priority
RECURSIVE PriorityGroups(_, _, _)
PriorityGroups(sorted, current_priority, current_group) ==
    IF sorted = <<>>
    THEN (IF current_group # <<>> THEN <<current_group>> ELSE <<>>)
    ELSE IF ~current_priority.some \/ current_priority.v = sorted[1][1]
    THEN PriorityGroups(Tail(sorted), [some |-> TRUE, v |-> sorted[1][1]],
                        Append(current_group, sorted[1][2]))
    ELSE <<current_group>> \o PriorityGroups(Tail(sorted), [some |-> TRUE, v |-> sorted[1][1]],
                                             <<sorted[1][2]>>)

RECURSIVE Flatten(_)
Flatten(groups) == IF groups = <<>> THEN <<>> ELSE groups[1] \o Flatten(Tail(groups))

\* the order in which the nested loops over priority_groups visit the projects
ProcessingOrder(keys, requirements_map) ==
    Flatten(PriorityGroups(SortByPriority(ProjectsByPriority(keys, requirements_map)),
                           [some |-> FALSE, v |-> 0], <<>>))

\* warnings pushed for the projects that have assignments but no requirement
MissingRequirementWarnings(keys, requirements_map) ==
    SelectSeq(keys, LAMBDA p : p \notin DOMAIN requirements_map)

\* the first loop over a project's assignments: one AssignmentCapacity each
AssignmentCapacities(project_assignments, person_states) ==
    [i \in 1..Len(project_assignments) |->
        LET assignment == project_assignments[i]
            state == person_states[assignment.person_id]
        IN [assignment |-> assignment,
            available_hours |-> state.available_hours,
            remaining_capacity_pct |-> state.remaining_percentage,
            productivity_factor |-> assignment.productivity_factor,
            max_contribution_hours |->
                RMul(RMul(state.available_hours,
                          RDiv(state.remaining_percentage, Hundred)),
                     assignment.productivity_factor)]]

TotalAvailableHours(caps) == SumSeq([i \in 1..Len(caps) |-> caps[i].max_contribution_hours])

\* a share taken from the person's raw hours instead of max_contribution_hours
AllocatedHoursByRawHours(cap, total_available_hours, hours_to_distribute) ==
    RMul(RDiv(cap.available_hours, total_available_hours), hours_to_distribute)

AllocatedHours(cap, total_available_hours, hours_to_distribute) ==
    RMul(RDiv(cap.max_contribution_hours, total_available_hours), hours_to_distribute)

AllocationPct(cap, allocated_hours) ==
    IF RGt(cap.available_hours, Zero)
    THEN RMin(RMul(RDiv(RDiv(allocated_hours, cap.productivity_factor),
                        cap.available_hours), Hundred),
              cap.remaining_capacity_pct)
    ELSE Zero

\* the decrement without the floor at 0
DecrementRemainingNoFloor(remaining_percentage, allocation_pct) ==
    RSub(remaining_percentage, allocation_pct)

\* "Update person's remaining capacity"
DecrementRemaining(remaining_percentage, allocation_pct) ==
    RMax(RSub(remaining_percentage, allocation_pct), Zero)

\* the distribution loop; acc = [person_states, calculations, project_total_effective]
RECURSIVE Distribute(_, _, _, _)
Distribute(caps, total_available_hours, hours_to_distribute, acc) ==
    IF caps = <<>> THEN acc
    ELSE
    LET cap == caps[1]
        allocated_hours == AllocatedHours(cap, total_available_hours, hours_to_distribute)
        allocation_pct == AllocationPct(cap, allocated_hours)
        effective_hours == calculate_assignment_effective_hours(
                               cap.available_hours, allocation_pct, cap.productivity_factor)
        pid == cap.assignment.person_id
    IN Distribute(Tail(caps), total_available_hours, hours_to_distribute,
           [person_states |->
                [acc.person_states EXCEPT ![pid].remaining_percentage =
                    DecrementRemaining(@, allocation_pct)],
            calculations |->
                Append(acc.calculations,
                       [assignment_id |-> cap.assignment.id,
                        calculated_allocation_percentage |-> allocation_pct,
                        calculated_effective_hours |-> effective_hours]),
            project_total_effective |-> RAdd(acc.project_total_effective, effective_hours)])

\* the test with <= in place of <
IsUnderStaffedOrEqual(project_total_effective, required_hours) ==
    RLe(project_total_effective, required_hours)

\* "Check if project is under-staffed"
IsUnderStaffed(project_total_effective, required_hours) ==
    RLt(project_total_effective, required_hours)

\* the body of "for project_id in priority_group" on the run record st
ProcessOne(st, project_id) ==
    LET project_assignments == GroupByProject(st.assignments)[project_id]
        requirement == st.requirements_map[project_id]
        caps == AssignmentCapacities(project_assignments, st.person_states)
        total_available_hours == TotalAvailableHours(caps)
        hours_to_distribute == RMin(requirement.required_hours, total_available_hours)
        acc0 == [person_states |-> st.person_states,
                 calculations |-> st.calculations,
                 project_total_effective |-> Zero]
        acc == IF RGt(total_available_hours, Zero)
               THEN Distribute(caps, total_available_hours, hours_to_distribute, acc0)
               ELSE acc0
        shortfall == RSub(requirement.required_hours, acc.project_total_effective)
    IN [st EXCEPT
          !.person_states = acc.person_states,
          !.calculations = acc.calculations,
          !.infeasible_projects =
              IF IsUnderStaffed(acc.project_total_effective, requirement.required_hours)
              THEN Append(@, [project_id |-> project_id,
                              required_hours |-> requirement.required_hours,
                              available_effective_hours |-> acc.project_total_effective,
                              shortfall |-> shortfall,
                              shortfall_percentage |->
                                  RMul(RDiv(shortfall, requirement.required_hours), Hundred)])
              ELSE @,
          !.trace = Append(@, [project_id |-> project_id,
                               caps |-> caps,
                               total_available_hours |-> total_available_hours,
                               hours_to_distribute |-> hours_to_distribute,
                               before |-> st.person_states,
                               first |-> Len(st.calculations) + 1,
                               last |-> Len(acc.calculations)]),
          !.idx = @ + 1]

\* ------------------------------------------------------------------------
\* optimize_assignments (commands/optimization.rs) running
\* optimize_assignments_proportional (capacity/mod.rs)
\* ------------------------------------------------------------------------

Runs == {1, 2}

IdleRun ==
    [pc |-> "idle", planning_period_id |-> 0, assignments |-> <<>>,
     requirements_map |-> <<>>, order |-> <<>>, idx |-> 0,
     person_states |-> <<>>, calculations |-> <<>>, infeasible_projects |-> <<>>,
     warnings |-> <<>>, trace |-> <<>>, now |-> None, wi |-> 0, fresh |-> FALSE]

Finished(r) == run[r].pc \in {"idle", "ok", "err"}

\* the calculated fields of the period's rows, as stored
StoredFields(rows, p) ==
    MapRows(LAMBDA a : <<a.id, a.calculated_allocation_percentage,
                         a.calculated_effective_hours>>,
            SelectSeq(rows, LAMBDA a : a.planning_period_id = p))

\* every command that changes the data an optimization reads
Touch(h) == [h EXCEPT !.dirty = TRUE]

\* Ok(OptimizationResult) leaves the function
ReturnOk(r, h, st) ==
    /\ run' = [run EXCEPT ![r] = [st EXCEPT !.pc = "ok"]]
    /\ hist' = [period |-> st.planning_period_id,
                fields |-> StoredFields(assignments', st.planning_period_id),
                prev |-> h.fields,
                twice |-> st.fresh /\ ~h.dirty,
                dirty |-> h.dirty]

\* an optimizer that clears the period's calculated fields before it loads
ClearsBeforeLoad(r, planning_period_id) ==
    /\ assignments' = MapRows(LAMBDA a : IF a.planning_period_id = planning_period_id
                                         THEN [a EXCEPT !.calculated_allocation_percentage = NULL,
                                                        !.calculated_effective_hours = NULL,
                                                        !.last_calculated_at = None]
                                         ELSE a,
                              assignments)
    /\ written' = [written EXCEPT ![r] =
           {a.id : a \in {x \in Range(assignments) :
                             x.planning_period_id = planning_period_id}}]

\* lines 393-650 hold no UPDATE: nothing is written before the persistence loop
WritesBeforePersistence(r, planning_period_id) ==
    /\ assignments' = assignments
    /\ written' = [written EXCEPT ![r] = {}]

\* lines 393-526: the reads, the per-person availability, and the processing
\* order; keys is the iteration order of assignments_by_project.keys()
OptimizeStart(r, planning_period_id) ==
    /\ UNCHANGED reply
    /\ Finished(r)
    /\ ncmd' = ncmd + 1
    /\ WritesBeforePersistence(r, planning_period_id)
    /\ UNCHANGED <<planning_periods, people, projects, project_requirements, absences,
                   holidays, person_job_assignments, job_overhead_tasks, del, clock>>
    /\ LET periods == SelectSeq(planning_periods, LAMBDA pp : pp.id = planning_period_id)
           asgs == SelectSeq(assignments, LAMBDA a : a.planning_period_id = planning_period_id)
           st0 == [IdleRun EXCEPT !.planning_period_id = planning_period_id,
                                  !.assignments = asgs,
                                  !.fresh = hist.period = planning_period_id /\ ~hist.dirty]
       IN IF periods = <<>>
          THEN /\ run' = [run EXCEPT ![r] = [st0 EXCEPT !.pc = "err"]]
               /\ UNCHANGED hist
          ELSE IF asgs = <<>>
          THEN ReturnOk(r, [hist EXCEPT !.dirty = FALSE],
                        [st0 EXCEPT !.warnings = <<"No assignments found">>])
          ELSE
          LET people_map == PeopleMap(people)
              breakdown == [pid \in DOMAIN people_map |->
                               calculate_person_available_hours(people_map[pid], periods[1])]
              requirements_map ==
                  RequirementsMap(SelectSeq(project_requirements,
                                      LAMBDA q : q.planning_period_id = planning_period_id))
              assignments_by_project == GroupByProject(asgs)
          IN IF \E pid \in DOMAIN breakdown : ~breakdown[pid].ok
             THEN /\ run' = [run EXCEPT ![r] = [st0 EXCEPT !.pc = "err"]]
                  /\ UNCHANGED hist
             ELSE \E keys \in Perms(DOMAIN assignments_by_project) :
                  /\ run' = [run EXCEPT ![r] =
                        [st0 EXCEPT
                           !.pc = "allocating",
                           !.requirements_map = requirements_map,
                           !.person_states =
                               [pid \in DOMAIN breakdown |->
                                   [available_hours |-> breakdown[pid].available_hours,
                                    remaining_percentage |-> Hundred]],
                           !.warnings = MissingRequirementWarnings(keys, requirements_map),
                           !.order = ProcessingOrder(keys, requirements_map)]]
                  /\ hist' = [hist EXCEPT !.dirty = FALSE]

\* lines 528-649: one iteration of "for project_id in priority_group"
ProcessProject(r) ==
    /\ UNCHANGED reply
    /\ run[r].pc = "allocating"
    /\ run[r].idx < Len(run[r].order)
    /\ run' = [run EXCEPT ![r] = ProcessOne(@, @.order[@.idx + 1])]
    /\ UNCHANGED <<store, del, clock, written, hist, ncmd>>

\* line 652: let now = chrono::Utc::now().to_rfc3339()
TakeTimestamp(r) ==
    /\ UNCHANGED reply
    /\ run[r].pc = "allocating"
    /\ run[r].idx = Len(run[r].order)
    /\ clock' = clock + 1
    /\ run' = [run EXCEPT ![r].pc = "persisting", ![r].now = clock + 1]
    /\ UNCHANGED <<store, del, written, hist, ncmd>>

\* the UPDATE without its WHERE clause
UpdateCalculatedEveryRow(rows, calc, now) ==
    MapRows(LAMBDA a : [a EXCEPT
                          !.calculated_allocation_percentage =
                              calc.calculated_allocation_percentage,
                          !.calculated_effective_hours = calc.calculated_effective_hours,
                          !.last_calculated_at = now],
            rows)

\* an UPDATE that spares a row some run has already stamped
UpdateCalculatedIfUnset(rows, calc, now) ==
    MapRows(LAMBDA a : IF a.id = calc.assignment_id /\ a.last_calculated_at = None
                       THEN [a EXCEPT
                               !.calculated_allocation_percentage =
                                   calc.calculated_allocation_percentage,
                               !.calculated_effective_hours = calc.calculated_effective_hours,
                               !.last_calculated_at = now]
                       ELSE a,
            rows)

\* an UPDATE that leaves last_calculated_at as it is
UpdateCalculatedUnstamped(rows, calc, now) ==
    MapRows(LAMBDA a : IF a.id = calc.assignment_id
                       THEN [a EXCEPT
                               !.calculated_allocation_percentage =
                                   calc.calculated_allocation_percentage,
                               !.calculated_effective_hours = calc.calculated_effective_hours]
                       ELSE a,
            rows)

\* the UPDATE of lines 654-667 for one calculation
UpdateCalculated(rows, calc, now) ==
    MapRows(LAMBDA a : IF a.id = calc.assignment_id
                       THEN [a EXCEPT
                               !.calculated_allocation_percentage =
                                   calc.calculated_allocation_percentage,
                               !.calculated_effective_hours = calc.calculated_effective_hours,
                               !.last_calculated_at = now]
                       ELSE a,
            rows)

\* lines 653-668: one iteration of "for calc in &calculations"
PersistOne(r) ==
    /\ UNCHANGED reply
    /\ run[r].pc = "persisting"
    /\ run[r].wi < Len(run[r].calculations)
    /\ LET calc == run[r].calculations[run[r].wi + 1]
       IN /\ assignments' = UpdateCalculated(assignments, calc, run[r].now)
          /\ written' = [written EXCEPT ![r] =
                @ \cup {a.id : a \in {x \in Range(assignments) : x.id = calc.assignment_id}}]
    /\ run' = [run EXCEPT ![r].wi = @ + 1]
    /\ UNCHANGED <<planning_periods, people, projects, project_requirements, absences,
                   holidays, person_job_assignments, job_overhead_tasks,
                   del, clock, hist, ncmd>>

\* lines 670-683: Ok(OptimizationResult { success: true, ... })
OptimizeReturn(r) ==
    /\ UNCHANGED reply
    /\ run[r].pc = "persisting"
    /\ run[r].wi = Len(run[r].calculations)
    /\ UNCHANGED <<store, del, clock, written, ncmd>>
    /\ ReturnOk(r, hist, run[r])

\* ------------------------------------------------------------------------
\* commands/people.rs, projects.rs, planning_periods.rs: the delete commands
\* ------------------------------------------------------------------------

\* the column of assignments that references the table kind
RefersTo(a, kind, id) ==
    \/ kind = "person" /\ a.person_id = id
    \/ kind = "project" /\ a.project_id = id
    \/ kind = "planning_period" /\ a.planning_period_id = id

\* an invalidation that forgets calculated_effective_hours
InvalidatePercentageOnly(rows, kind, id) ==
    MapRows(LAMBDA a : IF RefersTo(a, kind, id)
                       THEN [a EXCEPT !.calculated_allocation_percentage = NULL,
                                      !.last_calculated_at = None]
                       ELSE a,
            rows)

\* UPDATE assignments SET calculated_* = NULL, last_calculated_at = NULL WHERE <kind>_id = ?
InvalidateCalculated(rows, kind, id) ==
    MapRows(LAMBDA a : IF RefersTo(a, kind, id)
                       THEN [a EXCEPT !.calculated_allocation_percentage = NULL,
                                      !.calculated_effective_hours = NULL,
                                      !.last_calculated_at = None]
                       ELSE a,
            rows)

\* first statement of delete_person / delete_project / delete_planning_period
DeleteInvalidate(kind, id) ==
    /\ UNCHANGED reply
    /\ del.pc = "idle"
    /\ del' = [pc |-> "invalidated", kind |-> kind, id |-> id]
    /\ assignments' = InvalidateCalculated(assignments, kind, id)
    /\ hist' = Touch(hist)
    /\ ncmd' = ncmd + 1
    /\ UNCHANGED <<planning_periods, people, projects, project_requirements, absences,
                   holidays, person_job_assignments, job_overhead_tasks,
                   run, clock, written>>

\* DELETE FROM people WHERE id = ?, with the ON DELETE CASCADE foreign keys
DeletePersonRow ==
    /\ UNCHANGED reply
    /\ del.pc = "invalidated"
    /\ del.kind = "person"
    /\ people' = SelectSeq(people, LAMBDA p : p.id # del.id)
    /\ assignments' = SelectSeq(assignments, LAMBDA a : a.person_id # del.id)
    /\ absences' = SelectSeq(absences, LAMBDA a : a.person_id # del.id)
    /\ person_job_assignments' =
           SelectSeq(person_job_assignments, LAMBDA j : j.person_id # del.id)
    /\ del' = [del EXCEPT !.pc = "idle"]
    /\ hist' = Touch(hist)
    /\ UNCHANGED <<planning_periods, projects, project_requirements, holidays,
                   job_overhead_tasks, run, clock, written, ncmd>>

\* DELETE FROM projects WHERE id = ?
DeleteProjectRow ==
    /\ UNCHANGED reply
    /\ del.pc = "invalidated"
    /\ del.kind = "project"
    /\ projects' = SelectSeq(projects, LAMBDA p : p.id # del.id)
    /\ project_requirements' =
           SelectSeq(project_requirements, LAMBDA q : q.project_id # del.id)
    /\ assignments' = SelectSeq(assignments, LAMBDA a : a.project_id # del.id)
    /\ del' = [del EXCEPT !.pc = "idle"]
    /\ hist' = Touch(hist)
    /\ UNCHANGED <<planning_periods, people, absences, holidays, person_job_assignments,
                   job_overhead_tasks, run, clock, written, ncmd>>

\* DELETE FROM planning_periods WHERE id = ?
DeletePlanningPeriodRow ==
    /\ UNCHANGED reply
    /\ del.pc = "invalidated"
    /\ del.kind = "planning_period"
    /\ planning_periods' = SelectSeq(planning_periods, LAMBDA p : p.id # del.id)
    /\ project_requirements' =
           SelectSeq(project_requirements, LAMBDA q : q.planning_period_id # del.id)
    /\ assignments' = SelectSeq(assignments, LAMBDA a : a.planning_period_id # del.id)
    /\ person_job_assignments' =
           SelectSeq(person_job_assignments, LAMBDA j : j.planning_period_id # del.id)
    /\ del' = [del EXCEPT !.pc = "idle"]
    /\ hist' = Touch(hist)
    /\ UNCHANGED <<people, projects, absences, holidays, job_overhead_tasks,
                   run, clock, written, ncmd>>

\* ------------------------------------------------------------------------
\* commands/requirements.rs: upsert_project_requirement
\* ------------------------------------------------------------------------

DefaultPriority == 10

\* the rowid given to an inserted row (ids of deleted rows are not retired as
\* AUTOINCREMENT retires them; no modelled command reads a requirement's id)
NextRowId(rows) ==
    IF rows = <<>> THEN 1
    ELSE 1 + (CHOOSE m \in {rows[i].id : i \in 1..Len(rows)} :
                 \A i \in 1..Len(rows) : rows[i].id <= m)

upsert_project_requirement(project_id, planning_period_id, required_hours) ==
    /\ UNCHANGED reply
    /\ ncmd' = ncmd + 1
    /\ UNCHANGED <<planning_periods, people, projects, assignments, absences, holidays,
                   person_job_assignments, job_overhead_tasks, run, del, clock, written>>
    /\ IF \E q \in Range(project_requirements) :
              q.project_id = project_id /\ q.planning_period_id = planning_period_id
       THEN /\ project_requirements' =
                   MapRows(LAMBDA q : IF q.project_id = project_id
                                         /\ q.planning_period_id = planning_period_id
                                      THEN [q EXCEPT !.required_hours = required_hours]
                                      ELSE q,
                           project_requirements)
            /\ hist' = Touch(hist)
       ELSE IF /\ \E p \in Range(projects) : p.id = project_id
               /\ \E p \in Range(planning_periods) : p.id = planning_period_id
       THEN /\ project_requirements' =
                   Append(project_requirements,
                          [id |-> NextRowId(project_requirements),
                           project_id |-> project_id,
                           planning_period_id |-> planning_period_id,
                           required_hours |-> required_hours,
                           priority |-> DefaultPriority])
            /\ hist' = Touch(hist)
       ELSE UNCHANGED <<project_requirements, hist>>

\* ------------------------------------------------------------------------
\* the stores the model starts from
\* ------------------------------------------------------------------------

MaxRows == 3

MaxCommands == 3

PeriodIds == {1, 2, 3}

MonFri == <<"Mon", ",", "Tue", ",", "Wed", ",", "Thu", ",", "Fri">>

\* person 1: 30 h/week on five days, country 1; person 2: 20 h/week on two days
BasePeople ==
    <<[id |-> 1, available_hours_per_week |-> R(30), working_days |-> MonFri,
       country_id |-> 1],
      [id |-> 2, available_hours_per_week |-> R(20), working_days |-> <<"Mon", ",", "Wed">>,
       country_id |-> None]>>

BaseProjects == <<[id |-> 1], [id |-> 2], [id |-> 3]>>

\* period 1 is the week of days 0..6, period 2 the week after; no period 3
BasePeriods(end1) ==
    <<[id |-> 1, start_date |-> Date(0), end_date |-> end1],
      [id |-> 2, start_date |-> Date(7), end_date |-> Date(13)]>>

Worlds == {"plain", "deduct", "zero", "bad_period", "bad_holiday", "bad_absence"}

OkWorlds == {"plain", "deduct", "zero"}

WorldPeriods(w) == BasePeriods(IF w = "bad_period" THEN BadDate(6) ELSE Date(6))

WorldAbsences(w) ==
    IF w = "deduct"
    THEN <<[id |-> 1, person_id |-> 1, start_date |-> Date(1), end_date |-> Date(1),
            days |-> 1]>>
    ELSE IF w = "zero"
    THEN <<[id |-> 1, person_id |-> 2, start_date |-> Date(0), end_date |-> Date(6),
            days |-> 5]>>
    ELSE IF w = "bad_absence"
    THEN <<[id |-> 1, person_id |-> 1, start_date |-> BadDate(2), end_date |-> Date(2),
            days |-> 1]>>
    ELSE <<>>

WorldHolidays(w) ==
    IF w \in {"deduct", "bad_absence"}
    THEN <<[id |-> 1, country_id |-> 1, start_date |-> Date(4), end_date |-> Date(8)]>>
    ELSE IF w = "bad_holiday"
    THEN <<[id |-> 1, country_id |-> 1, start_date |-> Date(4), end_date |-> BadDate(4)]>>
    ELSE <<>>

WorldJobAssignments(w) ==
    IF w = "deduct"
    THEN <<[id |-> 1, person_id |-> 1, job_id |-> 1, planning_period_id |-> 1]>>
    ELSE <<>>

WorldTasks(w) ==
    IF w = "deduct"
    THEN <<[id |-> 1, job_id |-> 1, effort_hours |-> R(4), effort_period |-> "weekly",
            is_optional |-> FALSE, optional_weight |-> Frac(1, 2)],
           [id |-> 2, job_id |-> 1, effort_hours |-> R(1), effort_period |-> "daily",
            is_optional |-> TRUE, optional_weight |-> Frac(2, 5)]>>
    ELSE <<>>

NewAssignment(id, person_id, project_id, planning_period_id, productivity_factor) ==
    [id |-> id, person_id |-> person_id, project_id |-> project_id,
     planning_period_id |-> planning_period_id,
     productivity_factor |-> productivity_factor,
     start_date |-> Date(7 * (planning_period_id - 1)),
     end_date |-> Date(7 * (planning_period_id - 1) + 6),
     is_pinned |-> FALSE,
     pinned_allocation_percentage |-> NULL,
     calculated_allocation_percentage |-> NULL,
     calculated_effective_hours |-> NULL,
     last_calculated_at |-> None]

\* the tables of assignments built from the candidate rows cands: every
\* multiset of at most MaxRows candidates, one canonical row order each
AssignmentTables(cands) ==
    {[i \in 1..Len(pick) |->
         NewAssignment(i, cands[pick[i]][1], cands[pick[i]][2], 1, cands[pick[i]][3])] :
     pick \in {f \in UNION {[1..n -> 1..Len(cands)] : n \in 0..MaxRows} :
                  \A i \in 1..(Len(f) - 1) : f[i] <= f[i + 1]}}

Requirement(id, project_id, planning_period_id, required_hours, priority) ==
    [id |-> id, project_id |-> project_id, planning_period_id |-> planning_period_id,
     required_hours |-> required_hours, priority |-> priority]

\* no command has returned yet
NoReply == [cmd |-> "none", n |-> 0, ok |-> TRUE]

InitRunState ==
    /\ run = [r \in Runs |-> IdleRun]
    /\ del = [pc |-> "idle", kind |-> "person", id |-> 0]
    /\ clock = 0
    /\ written = [r \in Runs |-> {}]
    /\ hist = [period |-> 0, fields |-> <<>>, prev |-> <<>>, twice |-> FALSE,
               dirty |-> FALSE]
    /\ ncmd = 0
    /\ reply = NoReply

InitWorld(w) ==
    /\ planning_periods = WorldPeriods(w)
    /\ people = BasePeople
    /\ projects = BaseProjects
    /\ absences = WorldAbsences(w)
    /\ holidays = WorldHolidays(w)
    /\ person_job_assignments = WorldJobAssignments(w)
    /\ job_overhead_tasks = WorldTasks(w)

ProductivityFactors == {Zero, Frac(1, 2), R(1)}

Priorities == {10, 30}

RequiredHours == {Zero, R(20), R(40)}

\* candidate rows <<person_id, project_id, productivity_factor>> of period 1
OptCands ==
    <<<<1, 1, Zero>>, <<1, 1, Frac(1, 2)>>, <<1, 1, R(1)>>,
      <<2, 1, Frac(1, 2)>>, <<2, 1, R(1)>>,
      <<1, 2, Zero>>, <<1, 2, Frac(1, 2)>>, <<1, 2, R(1)>>,
      <<2, 2, Frac(1, 2)>>, <<2, 2, R(1)>>,
      <<1, 3, R(1)>>>>

\* requirements of period 1: projects 1 and 2 always have one, project 3 may
RequirementTables ==
    {<<Requirement(1, 1, 1, h1, p1), Requirement(2, 2, 1, h2, p2)>> \o third :
        h1 \in RequiredHours, h2 \in RequiredHours \ {Zero},
        p1 \in Priorities, p2 \in Priorities,
        third \in {<<>>, <<Requirement(3, 3, 1, R(20), 10)>>}}

\* one optimization of a store drawn from the bounded sets above
InitOpt ==
    /\ InitRunState
    /\ \E w \in {"plain", "zero"} : InitWorld(w)
    /\ project_requirements \in RequirementTables
    /\ assignments \in AssignmentTables(OptCands)

NextOpt ==
    \/ \E p \in PeriodIds : ncmd = 0 /\ OptimizeStart(1, p)
    \/ ProcessProject(1)
    \/ TakeTimestamp(1)
    \/ PersistOne(1)
    \/ OptimizeReturn(1)

SpecOpt == InitOpt /\ [][NextOpt]_vars

\* ------------------------------------------------------------------------
\* the commands at large
\* ------------------------------------------------------------------------

CmdCands == <<<<1, 1, R(1)>>, <<1, 2, R(1)>>, <<2, 2, Frac(1, 2)>>>>

\* the period-1 rows plus one row of period 2 (person 1 on project 1)
CmdAssignmentTables ==
    {t \o <<NewAssignment(Len(t) + 1, 1, 1, 2, R(1))>> : t \in AssignmentTables(CmdCands)}

CmdRequirementTables ==
    {<<Requirement(1, 1, 1, R(20), p1), Requirement(2, 2, 1, R(60), 10),
       Requirement(3, 1, 2, R(20), 10)>> : p1 \in Priorities}

\* the stores the commands start from: plain data, and the three with a date
\* that does not parse
CmdWorlds == {"plain", "bad_period", "bad_holiday", "bad_absence"}

DeleteTargets == {<<"person", 1>>, <<"project", 2>>, <<"planning_period", 1>>}

Init ==
    /\ InitRunState
    /\ \E w \in CmdWorlds : InitWorld(w)
    /\ project_requirements \in CmdRequirementTables
    /\ assignments \in CmdAssignmentTables

Next ==
    \/ \E p \in PeriodIds : ncmd < MaxCommands /\ OptimizeStart(1, p)
    \/ ProcessProject(1)
    \/ TakeTimestamp(1)
    \/ PersistOne(1)
    \/ OptimizeReturn(1)
    \/ \E t \in DeleteTargets : ncmd < MaxCommands /\ DeleteInvalidate(t[1], t[2])
    \/ DeletePersonRow
    \/ DeleteProjectRow
    \/ DeletePlanningPeriodRow
    \/ \E h \in {Zero, R(60)} :
          ncmd < MaxCommands /\ upsert_project_requirement(1, 1, h)

Spec == Init /\ [][Next]_vars

\* ------------------------------------------------------------------------
\* properties of one optimization (checked under SpecOpt)
\* ------------------------------------------------------------------------

\* the projects of a run that have both a requirement and assignments
Staffed(st) ==
    {a.project_id : a \in Range(st.assignments)} \cap DOMAIN st.requirements_map

Processed(st) == {st.trace[i].project_id : i \in 1..Len(st.trace)}

\* the calculations recorded by the pass of trace entry t, in order
PassCalculations(st, t) == SubSeq(st.calculations, t.first, t.last)

HasCalculation(st, a) == \E c \in Range(st.calculations) : c.assignment_id = a.id

\* C1: when the pass of a project B begins, every project A of strictly
\* higher priority that has a requirement and assignments has already been
\* processed: each of its assignments has its calculation (unless A had no
\* capacity at all) and its people's remaining_percentage is the decremented one.
C1_PriorityOrder ==
    [][\A r \in Runs :
          (run[r].pc = "allocating" /\ run'[r].idx = run[r].idx + 1) =>
              LET st == run[r]
                  B == st.order[st.idx + 1]
              IN \A A \in Staffed(st) :
                    st.requirements_map[A].priority > st.requirements_map[B].priority =>
                        /\ A \in Processed(st)
                        /\ \A i \in 1..Len(st.trace) :
                              st.trace[i].project_id = A =>
                                  \/ ~RGt(st.trace[i].total_available_hours, Zero)
                                  \/ \A a \in Range(st.assignments) :
                                        a.project_id = A => HasCalculation(st, a)]_vars

\* two projects of different priority, both staffed, have been processed
C1_Witness ==
    \E r \in Runs : \E i, j \in 1..Len(run[r].trace) :
        /\ i < j
        /\ run[r].requirements_map[run[r].trace[i].project_id].priority
             > run[r].requirements_map[run[r].trace[j].project_id].priority
        /\ RGt(run[r].trace[i].total_available_hours, Zero)
        /\ RGt(run[r].trace[j].total_available_hours, Zero)

\* C2: within one project's pass the effective hours recorded for any two
\* assignments are in the ratio of their max_contribution_hours.
C2_Proportional ==
    \A r \in Runs : \A k \in 1..Len(run[r].trace) :
        LET t == run[r].trace[k]
            calcs == PassCalculations(run[r], t)
        IN \A i, j \in 1..Len(calcs) :
              RMul(calcs[i].calculated_effective_hours, t.caps[j].max_contribution_hours)
                = RMul(calcs[j].calculated_effective_hours, t.caps[i].max_contribution_hours)

\* max contributions 30 and 10, 40 hours distributed: 30 h and 10 h (75% and 25%)
C2_Witness ==
    \E r \in Runs : \E k \in 1..Len(run[r].trace) :
        LET t == run[r].trace[k]
            calcs == PassCalculations(run[r], t)
        IN /\ Len(calcs) = 2
           /\ t.caps[1].max_contribution_hours = R(30)
           /\ t.caps[2].max_contribution_hours = R(10)
           /\ t.hours_to_distribute = R(40)
           /\ calcs[1].calculated_effective_hours = RMul(Frac(75, 100), R(40))
           /\ calcs[2].calculated_effective_hours = RMul(Frac(25, 100), R(40))

\* the remaining_percentage of person pid after the k-th pass of the run
RemainingAfter(st, k, pid) ==
    IF k = Len(st.trace) THEN st.person_states[pid].remaining_percentage
    ELSE st.trace[k + 1].before[pid].remaining_percentage

\* C3: every recorded allocation percentage lies between 0 and the person's
\* remaining_percentage when the project's pass began; a person's
\* remaining_percentage stays within [0, 100] and never increases.
C3_AllocationBounds ==
    \A r \in Runs :
        /\ \A k \in 1..Len(run[r].trace) :
              LET t == run[r].trace[k]
                  calcs == PassCalculations(run[r], t)
              IN /\ \A i \in 1..Len(calcs) :
                       /\ RLe(Zero, calcs[i].calculated_allocation_percentage)
                       /\ RLe(calcs[i].calculated_allocation_percentage,
                              t.caps[i].remaining_capacity_pct)
                 /\ \A pid \in DOMAIN t.before :
                       RLe(RemainingAfter(run[r], k, pid), t.before[pid].remaining_percentage)
        /\ \A pid \in DOMAIN run[r].person_states :
              /\ RLe(Zero, run[r].person_states[pid].remaining_percentage)
              /\ RLe(run[r].person_states[pid].remaining_percentage, Hundred)

\* a person allocated twice in one pass, the two percentages exceeding what remained
C3_Witness ==
    \E r \in Runs : \E k \in 1..Len(run[r].trace) :
        LET t == run[r].trace[k]
            calcs == PassCalculations(run[r], t)
        IN \E i, j \in 1..Len(calcs) :
              /\ i < j
              /\ t.caps[i].assignment.person_id = t.caps[j].assignment.person_id
              /\ RGt(RAdd(calcs[i].calculated_allocation_percentage,
                          calcs[j].calculated_allocation_percentage),
                     t.caps[i].remaining_capacity_pct)

Listed(st, project_id) ==
    {i \in 1..Len(st.infeasible_projects) : st.infeasible_projects[i].project_id = project_id}

\* the effective hours a project received in its pass
Achieved(st, t) ==
    SumSeq([i \in 1..(t.last - t.first + 1) |->
               st.calculations[t.first + i - 1].calculated_effective_hours])

\* C9: a processed project is listed in infeasible_projects exactly when the
\* effective hours it received are less than required_hours, with
\* shortfall = required - achieved and shortfall_percentage = shortfall /
\* required * 100; with no capacity at all nothing is distributed and the
\* project is listed iff required_hours > 0.
C9_Infeasible ==
    \A r \in Runs : \A k \in 1..Len(run[r].trace) :
        LET st == run[r]
            t == st.trace[k]
            required == st.requirements_map[t.project_id].required_hours
            achieved == Achieved(st, t)
        IN /\ Cardinality(Listed(st, t.project_id)) <= 1
           /\ (Listed(st, t.project_id) # {}) <=> RLt(achieved, required)
           /\ \A i \in Listed(st, t.project_id) :
                 /\ st.infeasible_projects[i].shortfall = RSub(required, achieved)
                 /\ st.infeasible_projects[i].shortfall_percentage
                      = RMul(RDiv(RSub(required, achieved), required), Hundred)
           /\ t.total_available_hours = Zero =>
                 /\ t.last < t.first
                 /\ (Listed(st, t.project_id) # {}) <=> RGt(required, Zero)

\* one project without capacity and without demand (not listed) and one
\* that received exactly what it required (not listed) next to a listed one
C9_Witness ==
    \E r \in Runs : \E k1, k2, k3 \in 1..Len(run[r].trace) :
        LET st == run[r] IN
        /\ st.trace[k1].total_available_hours = Zero
        /\ Listed(st, st.trace[k1].project_id) # {}
        /\ RGt(st.trace[k2].total_available_hours, Zero)
        /\ Achieved(st, st.trace[k2]) = st.requirements_map[st.trace[k2].project_id].required_hours
        /\ Listed(st, st.trace[k2].project_id) = {}
        /\ RGt(Achieved(st, st.trace[k3]), Zero)
        /\ Listed(st, st.trace[k3].project_id) # {}

RECURSIVE SumOver(_, _)
SumOver(S, f) ==
    IF S = {} THEN Zero
    ELSE LET x == CHOOSE y \in S : TRUE IN RAdd(f[x], SumOver(S \ {x}, f))

Shortfall(st, project_id) ==
    IF Listed(st, project_id) = {} THEN Zero
    ELSE st.infeasible_projects[CHOOSE i \in Listed(st, project_id) : TRUE].shortfall

RequiredOf(st, project_id) == st.requirements_map[project_id].required_hours

\* the available hours of all people of the run
TotalCapacity(st) ==
    SumOver(DOMAIN st.person_states,
            [pid \in DOMAIN st.person_states |-> st.person_states[pid].available_hours])

\* what the assignments of one project can contribute at 100%
StaffCapacity(st, project_id) ==
    LET asgs == SelectSeq(st.assignments, LAMBDA a : a.project_id = project_id)
    IN SumSeq([i \in 1..Len(asgs) |->
                  RMul(st.person_states[asgs[i].person_id].available_hours,
                       asgs[i].productivity_factor)])

\* both projects are staffed by the same people at the same productivity factors
SameStaff(st, H, L) ==
    \A a \in Range(st.assignments) :
        a.project_id \in {H, L} =>
            Cardinality({x \in Range(st.assignments) :
                            /\ x.project_id = H
                            /\ x.person_id = a.person_id
                            /\ x.productivity_factor = a.productivity_factor})
              = Cardinality({x \in Range(st.assignments) :
                                /\ x.project_id = L
                                /\ x.person_id = a.person_id
                                /\ x.productivity_factor = a.productivity_factor})

\* what all assignments of the run can contribute at 100%
AssignedCapacity(st) ==
    SumSeq([i \in 1..Len(st.assignments) |->
               RMul(st.person_states[st.assignments[i].person_id].available_hours,
                    st.assignments[i].productivity_factor)])

\* each requirement fits and both together do not, whether the total capacity
\* is counted per person or per assignment
FitEachNotBoth(st, H, L) ==
    /\ \A cap \in {TotalCapacity(st), AssignedCapacity(st)} :
          /\ RLe(RequiredOf(st, H), cap)
          /\ RLe(RequiredOf(st, L), cap)
          /\ RGt(RAdd(RequiredOf(st, H), RequiredOf(st, L)), cap)

\* C10 as claimed: of two staffed projects with different priorities whose
\* required_hours each fit within the total capacity but not both together,
\* the higher-priority one ends with the smaller (or equal) shortfall.
C10_PriorityMonotonicity ==
    \A r \in Runs :
        run[r].pc = "ok" =>
            LET st == run[r]
            IN \A H, L \in Staffed(st) :
                  ( /\ st.requirements_map[H].priority > st.requirements_map[L].priority
                    /\ FitEachNotBoth(st, H, L) )
                  => RLe(Shortfall(st, H), Shortfall(st, L))

\* C10 amended: the same, for two projects that are the only staffed ones of
\* the period and are staffed by the same people at the same productivity
\* factors, the capacity being that of this shared staff.
C10_SharedStaffMonotonicity ==
    \A r \in Runs :
        run[r].pc = "ok" =>
            LET st == run[r]
            IN \A H, L \in Staffed(st) :
                  ( /\ st.requirements_map[H].priority > st.requirements_map[L].priority
                    /\ {a.project_id : a \in Range(st.assignments)} = {H, L}
                    /\ SameStaff(st, H, L)
                    /\ RLe(RequiredOf(st, H), StaffCapacity(st, H))
                    /\ RLe(RequiredOf(st, L), StaffCapacity(st, H))
                    /\ RGt(RAdd(RequiredOf(st, H), RequiredOf(st, L)), StaffCapacity(st, H)) )
                  => RLe(Shortfall(st, H), Shortfall(st, L))

\* two projects competing for the same staff; the lower-priority one falls short
C10_Witness ==
    \E r \in Runs :
        /\ run[r].pc = "ok"
        /\ LET st == run[r]
           IN \E H, L \in Staffed(st) :
                 /\ st.requirements_map[H].priority > st.requirements_map[L].priority
                 /\ {a.project_id : a \in Range(st.assignments)} = {H, L}
                 /\ SameStaff(st, H, L)
                 /\ RLe(RequiredOf(st, H), StaffCapacity(st, H))
                 /\ RLe(RequiredOf(st, L), StaffCapacity(st, H))
                 /\ RGt(RAdd(RequiredOf(st, H), RequiredOf(st, L)), StaffCapacity(st, H))
                 /\ Shortfall(st, H) = Zero
                 /\ RGt(Shortfall(st, L), Zero)

\* ------------------------------------------------------------------------
\* properties of the commands (checked under Spec)
\* ------------------------------------------------------------------------

\* C4: a run that follows a completed run of the same period, with no data
\* change since that run read the store, leaves the same calculated
\* percentage and effective hours on every assignment of the period.
C4_Idempotent == hist.twice => hist.fields = hist.prev

RowsOfRun(st) ==
    {a \in Range(assignments) :
        /\ a.planning_period_id = st.planning_period_id
        /\ a.project_id \in DOMAIN st.requirements_map}

\* C5: when a run has returned successfully (and nothing changed since it
\* read the store), no assignment of the period whose project has a
\* requirement still carries calculated values stamped by an earlier run.
C5_FullOverwrite ==
    \A r \in Runs :
        (run[r].pc = "ok" /\ ~hist.dirty) =>
            \A a \in RowsOfRun(run[r]) :
                a.last_calculated_at \in {None, run[r].now}

\* the columns of an assignment row that optimization must not touch
FixedColumns(a) ==
    <<a.id, a.person_id, a.project_id, a.planning_period_id, a.productivity_factor,
      a.start_date, a.end_date, a.is_pinned, a.pinned_allocation_percentage>>

\* C6: a step of optimize_assignments changes nothing in the store but the
\* three calculated fields of assignments of its period.
C6_Frame ==
    [][(run' # run) =>
          /\ UNCHANGED <<planning_periods, people, projects, project_requirements,
                         absences, holidays, person_job_assignments, job_overhead_tasks>>
          /\ Len(assignments') = Len(assignments)
          /\ \A i \in 1..Len(assignments) :
                /\ FixedColumns(assignments'[i]) = FixedColumns(assignments[i])
                /\ (\A r \in Runs :
                       run'[r] # run[r] =>
                           assignments[i].planning_period_id # run[r].planning_period_id)
                   => assignments'[i] = assignments[i]]_vars

\* a run has written a row of its period while a row of another period exists
C6_Witness ==
    \E r \in Runs :
        /\ written[r] # {}
        /\ \E a \in Range(assignments) :
              /\ a.planning_period_id # run[r].planning_period_id
              /\ a.last_calculated_at # None
        /\ \E a \in Range(assignments) :
              /\ a.planning_period_id = run[r].planning_period_id
              /\ a.last_calculated_at = run[r].now

\* C7: a run that fails (unknown period, unparseable date) returns an error:
\* the step that fails leaves every assignment row as it was, and the failed
\* run has modified no assignment row.
C7_NoWriteOnError ==
    /\ [](\A r \in Runs : run[r].pc = "err" => written[r] = {})
    /\ [][\A r \in Runs :
             (run[r].pc # "err" /\ run'[r].pc = "err") => assignments' = assignments]_vars

\* a run failed on a date of an existing period whose rows hold earlier results
C7_Witness ==
    \E r \in Runs :
        /\ run[r].pc = "err"
        /\ \E p \in Range(planning_periods) : p.id = run[r].planning_period_id
        /\ run[r].assignments # <<>>

Dangling(a) ==
    \/ \A p \in Range(people) : p.id # a.person_id
    \/ \A p \in Range(projects) : p.id # a.project_id
    \/ \A p \in Range(planning_periods) : p.id # a.planning_period_id

CalculatedNull(a) ==
    /\ a.calculated_allocation_percentage = NULL
    /\ a.calculated_effective_hours = NULL
    /\ a.last_calculated_at = None

\* C8: the first statement of a delete command nulls the three calculated
\* fields of every assignment referencing the entity; the entity is removed
\* only by the second statement of that command; and in no state does an
\* assignment reference a removed person, project or period while holding a
\* non-null calculated field.
C8_InvalidateBeforeDelete ==
    /\ [](\A a \in Range(assignments) : Dangling(a) => CalculatedNull(a))
    /\ [][/\ (del.pc = "idle" /\ del'.pc = "invalidated") =>
                \A a \in Range(assignments') :
                    RefersTo(a, del'.kind, del'.id) => CalculatedNull(a)
          /\ (people' # people \/ projects' # projects
                \/ planning_periods' # planning_periods) =>
                /\ del.pc = "invalidated"
                /\ del'.pc = "idle"
                /\ people' = SelectSeq(people, LAMBDA p : del.kind # "person" \/ p.id # del.id)
                /\ projects' =
                       SelectSeq(projects, LAMBDA p : del.kind # "project" \/ p.id # del.id)
                /\ planning_periods' =
                       SelectSeq(planning_periods,
                                 LAMBDA p : del.kind # "planning_period" \/ p.id # del.id)]_vars

\* between the two statements: the rows of the entity, optimized before, are null
C8_Witness ==
    /\ del.pc = "invalidated"
    /\ \E a \in Range(assignments) :
          /\ RefersTo(a, del.kind, del.id)
          /\ CalculatedNull(a)
          /\ \E f \in Range(hist.fields) : f[1] = a.id /\ f[2] # NULL

\* ------------------------------------------------------------------------
\* projects without requirement (checked under SpecOpt)
\* ------------------------------------------------------------------------

\* the projects of the run that have assignments but no requirement
MissingRequirement(st) ==
    {a.project_id : a \in Range(st.assignments)} \ DOMAIN st.requirements_map

Loaded(st) == st.pc \in {"allocating", "persisting", "ok"} /\ st.assignments # <<>>

\* C11: a project with assignments but no requirement gets exactly one
\* warning naming it and is skipped: it is not in the processing order and
\* none of its assignments gets a calculation or has its stored fields
\* changed; every other staffed project is processed; and the run, once
\* loaded, does not end in an error.
C11_MissingRequirementSkipped ==
    /\ [](\A r \in Runs :
            Loaded(run[r]) =>
               LET st == run[r]
               IN /\ Range(st.warnings) = MissingRequirement(st)
                  /\ Len(st.warnings) = Cardinality(MissingRequirement(st))
                  /\ Range(st.order) = Staffed(st)
                  /\ \A a \in Range(st.assignments) :
                        a.project_id \in MissingRequirement(st) => ~HasCalculation(st, a)
                  /\ st.pc \in {"persisting", "ok"} => Processed(st) = Staffed(st))
    /\ [][\A r \in Runs :
             /\ Loaded(run[r]) => run'[r].pc # "err"
             /\ Loaded(run'[r]) =>
                   \A i \in 1..Len(assignments) :
                      ( /\ assignments[i].planning_period_id = run'[r].planning_period_id
                        /\ assignments[i].project_id \in MissingRequirement(run'[r]) )
                      => assignments'[i] = assignments[i]]_vars

\* a successful run that skipped a project and wrote the rows of another
C11_Witness ==
    \E r \in Runs :
        /\ run[r].pc = "ok"
        /\ run[r].assignments # <<>>
        /\ MissingRequirement(run[r]) # {}
        /\ Len(run[r].warnings) = 1
        /\ \E a \in Range(assignments) :
              /\ a.project_id \in MissingRequirement(run[r])
              /\ CalculatedNull(a)
        /\ \E a \in Range(assignments) :
              /\ a.project_id \in Staffed(run[r])
              /\ a.last_calculated_at = run[r].now

\* ------------------------------------------------------------------------
\* commands/assignments.rs: create_assignment, update_assignment
\* ------------------------------------------------------------------------

\* Option<String>: Some(date) / None
SomeDate(d) == [some |-> TRUE, v |-> d]

NoDate == [some |-> FALSE, v |-> Date(0)]

\* String comparison of two date columns
DateLt(a, b) == a.pos < b.pos

DateGt(a, b) == a.pos > b.pos

\* a check that looks for a requirement of the project in any period
RequirementCountAnyPeriod(project_id, planning_period_id) ==
    Cardinality({q \in Range(project_requirements) : q.project_id = project_id})

\* SELECT COUNT(*) FROM project_requirements WHERE project_id = ? AND planning_period_id = ?
RequirementCount(project_id, planning_period_id) ==
    Cardinality({q \in Range(project_requirements) :
                    q.project_id = project_id /\ q.planning_period_id = planning_period_id})

\* the foreign keys of the assignments table
ForeignKeysHold(input) ==
    /\ \E p \in Range(people) : p.id = input.person_id
    /\ \E p \in Range(projects) : p.id = input.project_id
    /\ \E p \in Range(planning_periods) : p.id = input.planning_period_id

\* the validation shared by both commands (lines 40-88 and 132-179): the
\* error it returns, or "" with the dates to store
ValidateAssignment(input) ==
    LET periods == SelectSeq(planning_periods, LAMBDA pp : pp.id = input.planning_period_id)
    IN IF RequirementCount(input.project_id, input.planning_period_id) = 0
       THEN [err |-> "Project requirement must be defined", start_date |-> Date(0),
             end_date |-> Date(0)]
       ELSE IF periods = <<>>
       THEN [err |-> "Planning period not found", start_date |-> Date(0),
             end_date |-> Date(0)]
       ELSE LET period == periods[1]
                start_date == IF input.start_date.some THEN input.start_date.v
                              ELSE period.start_date
                end_date == IF input.end_date.some THEN input.end_date.v
                            ELSE period.end_date
                err == IF DateLt(start_date, period.start_date)
                          \/ DateGt(start_date, period.end_date)
                       THEN "Start date must be within planning period"
                       ELSE IF DateLt(end_date, period.start_date)
                               \/ DateGt(end_date, period.end_date)
                       THEN "End date must be within planning period"
                       ELSE IF DateGt(start_date, end_date)
                       THEN "Start date must be before end date"
                       ELSE ""
            IN [err |-> err, start_date |-> start_date, end_date |-> end_date]

AssignmentReply(cmd, id, input, err) ==
    [cmd |-> cmd, n |-> ncmd + 1, ok |-> err = "", err |-> err, id |-> id, input |-> input]

AssignmentFrame ==
    /\ ncmd' = ncmd + 1
    /\ UNCHANGED <<planning_periods, people, projects, project_requirements, absences,
                   holidays, person_job_assignments, job_overhead_tasks,
                   run, del, clock, written>>

create_assignment(input) ==
    /\ AssignmentFrame
    /\ LET v == ValidateAssignment(input)
           id == NextRowId(assignments)
       IN IF v.err # ""
          THEN /\ reply' = AssignmentReply("create_assignment", 0, input, v.err)
               /\ UNCHANGED <<assignments, hist>>
          ELSE IF ~ForeignKeysHold(input)
          THEN /\ reply' = AssignmentReply("create_assignment", 0, input,
                                           "FOREIGN KEY constraint failed")
               /\ UNCHANGED <<assignments, hist>>
          ELSE /\ assignments' =
                     Append(assignments,
                            [NewAssignment(id, input.person_id, input.project_id,
                                           input.planning_period_id,
                                           input.productivity_factor)
                             EXCEPT !.start_date = v.start_date, !.end_date = v.end_date])
               /\ reply' = AssignmentReply("create_assignment", id, input, "")
               /\ hist' = Touch(hist)

update_assignment(id, input) ==
    /\ AssignmentFrame
    /\ LET v == ValidateAssignment(input)
       IN IF v.err # ""
          THEN /\ reply' = AssignmentReply("update_assignment", id, input, v.err)
               /\ UNCHANGED <<assignments, hist>>
          ELSE IF \A a \in Range(assignments) : a.id # id
          THEN /\ reply' = AssignmentReply("update_assignment", id, input, "RowNotFound")
               /\ UNCHANGED <<assignments, hist>>
          ELSE IF ~ForeignKeysHold(input)
          THEN /\ reply' = AssignmentReply("update_assignment", id, input,
                                           "FOREIGN KEY constraint failed")
               /\ UNCHANGED <<assignments, hist>>
          ELSE /\ assignments' =
                     MapRows(LAMBDA a : IF a.id = id
                                        THEN [a EXCEPT
                                                !.person_id = input.person_id,
                                                !.project_id = input.project_id,
                                                !.planning_period_id = input.planning_period_id,
                                                !.productivity_factor = input.productivity_factor,
                                                !.start_date = v.start_date,
                                                !.end_date = v.end_date]
                                        ELSE a,
                             assignments)
               /\ reply' = AssignmentReply("update_assignment", id, input, "")
               /\ hist' = Touch(hist)

\* the inputs tried: person 9 does not exist; project 3 has no requirement;
\* period 1 is days 0..6 and period 2 days 7..13
AssignmentInputs ==
    [person_id : {1, 9}, project_id : {1, 3}, planning_period_id : {1, 2},
     productivity_factor : {Frac(1, 2)},
     start_date : {NoDate, SomeDate(Date(2)), SomeDate(Date(8))},
     end_date : {NoDate, SomeDate(Date(1)), SomeDate(Date(5))}]

\* project 1 has a requirement in period 1, and in period 2 or not
AsgRequirementTables ==
    {<<Requirement(1, 1, 1, R(20), 10)>> \o second :
        second \in {<<>>, <<Requirement(2, 1, 2, R(20), 10)>>}}

\* commands per behaviour of the editing specifications
MaxEdits == 2

InitAsg ==
    /\ InitRunState
    /\ InitWorld("plain")
    /\ project_requirements \in AsgRequirementTables
    /\ assignments \in AssignmentTables(<<<<1, 1, R(1)>>>>)

NextAsg ==
    \/ \E input \in AssignmentInputs : ncmd < MaxEdits /\ create_assignment(input)
    \/ \E id \in {1, 9}, input \in AssignmentInputs :
          ncmd < MaxEdits /\ update_assignment(id, input)

SpecAsg == InitAsg /\ [][NextAsg]_vars

\* C12: create_assignment and update_assignment fail, writing nothing, when
\* the input's (project, period) has no requirement, when the start or end
\* date (the period's bound where the input gives none) lies outside the
\* period, or when start > end; no failed call writes; a successful call
\* stores the input's dates, the period's bounds standing in for missing ones.
C12_AssignmentValidation ==
    [][(reply' # reply /\ reply'.cmd \in {"create_assignment", "update_assignment"}) =>
          LET input == reply'.input
              hasRequirement ==
                  \E q \in Range(project_requirements) :
                      /\ q.project_id = input.project_id
                      /\ q.planning_period_id = input.planning_period_id
              period == CHOOSE pp \in Range(planning_periods) :
                            pp.id = input.planning_period_id
              first == IF input.start_date.some THEN input.start_date.v.pos
                       ELSE period.start_date.pos
              last == IF input.end_date.some THEN input.end_date.v.pos
                      ELSE period.end_date.pos
              inside(d) == period.start_date.pos <= d /\ d <= period.end_date.pos
          IN /\ ~hasRequirement => ~reply'.ok
             /\ (hasRequirement /\ ~(inside(first) /\ inside(last) /\ first <= last))
                   => ~reply'.ok
             /\ ~reply'.ok => assignments' = assignments
             /\ reply'.ok =>
                   /\ \E a \in Range(assignments') :
                         /\ a.id = reply'.id
                         /\ a.project_id = input.project_id
                         /\ a.planning_period_id = input.planning_period_id
                         /\ a.start_date.pos = first
                         /\ a.end_date.pos = last
                   /\ \A a \in Range(assignments) :
                         a.id # reply'.id => a \in Range(assignments')]_vars

\* an update of an existing row was refused for want of a requirement, after
\* a create without dates had stored the bounds of period 1
C12_Witness ==
    /\ reply.cmd = "update_assignment"
    /\ ~reply.ok
    /\ reply.err = "Project requirement must be defined"
    /\ \E a \in Range(assignments) :
          /\ a.id = reply.id
          /\ a.project_id # reply.input.project_id
    /\ \E a \in Range(assignments) :
          /\ a.productivity_factor = Frac(1, 2)
          /\ a.start_date = Date(0)
          /\ a.end_date = Date(5)

\* ------------------------------------------------------------------------
\* overlapping optimization runs
\* ------------------------------------------------------------------------

\* person 1 on projects 1 and 2, or persons 1 and 2 on project 2 as well
ConcAssignmentTables ==
    {<<NewAssignment(1, 1, 1, 1, R(1)), NewAssignment(2, 1, 2, 1, R(1))>> \o third :
        third \in {<<>>, <<NewAssignment(3, 2, 2, 1, Frac(1, 2))>>}}

InitConc ==
    /\ InitRunState
    /\ InitWorld("plain")
    /\ project_requirements \in CmdRequirementTables
    /\ assignments \in ConcAssignmentTables

\* two invocations of optimize_assignments for period 1 whose awaits
\* interleave, and upsert_project_requirement between them
NextConc ==
    \/ \E r \in Runs : ncmd < MaxCommands /\ OptimizeStart(r, 1)
    \/ \E r \in Runs : ProcessProject(r)
    \/ \E r \in Runs : TakeTimestamp(r)
    \/ \E r \in Runs : PersistOne(r)
    \/ \E r \in Runs : OptimizeReturn(r)
    \/ \E h \in {Zero, R(60)} : ncmd < MaxCommands /\ upsert_project_requirement(1, 1, h)

SpecConc == InitConc /\ [][NextConc]_vars

\* the calculation a run holds for a row
CalculationOf(st, a) ==
    {c \in Range(st.calculations) : c.assignment_id = a.id}

Persisting(st) == st.pc \in {"persisting", "ok"}

\* C13: writes are last-write-wins per row: a write of a run replaces the
\* three calculated fields of its row whatever another run stored there and
\* changes no other row, so every row carries the calculation of the run
\* whose timestamp it bears.
C13_LastWriteWins ==
    /\ [](\A r \in Runs : \A a \in Range(assignments) :
            ( /\ Persisting(run[r])
              /\ a.last_calculated_at # None
              /\ a.last_calculated_at = run[r].now ) =>
                \E c \in CalculationOf(run[r], a) :
                    /\ a.calculated_allocation_percentage = c.calculated_allocation_percentage
                    /\ a.calculated_effective_hours = c.calculated_effective_hours)
    /\ [][\A r \in Runs :
             (run[r].pc = "persisting" /\ run'[r].wi = run[r].wi + 1) =>
                LET c == run[r].calculations[run'[r].wi]
                IN \A i \in 1..Len(assignments) :
                      IF assignments[i].id = c.assignment_id
                      THEN /\ assignments'[i].calculated_allocation_percentage =
                                  c.calculated_allocation_percentage
                           /\ assignments'[i].calculated_effective_hours =
                                  c.calculated_effective_hours
                           /\ assignments'[i].last_calculated_at = run[r].now
                      ELSE assignments'[i] = assignments[i]]_vars

\* a row of the period whose stored values are not the ones the run returned
DiffersFrom(st, a) ==
    /\ a.planning_period_id = st.planning_period_id
    /\ \E c \in CalculationOf(st, a) :
          \/ a.calculated_allocation_percentage # c.calculated_allocation_percentage
          \/ a.calculated_effective_hours # c.calculated_effective_hours

\* both runs of period 1 have returned Ok, the requirement of project 1 was
\* changed between their reads, and the stored fields mix rows of both
C13_Witness ==
    /\ run[1].pc = "ok" /\ run[2].pc = "ok"
    /\ run[1].planning_period_id = run[2].planning_period_id
    /\ run[1].requirements_map # run[2].requirements_map
    /\ \E a \in Range(assignments) : a.last_calculated_at = run[1].now
    /\ \E a \in Range(assignments) : a.last_calculated_at = run[2].now
    /\ \E a \in Range(assignments) : DiffersFrom(run[1], a)
    /\ \E a \in Range(assignments) : DiffersFrom(run[2], a)

\* ------------------------------------------------------------------------
\* commands/requirements.rs, commands/holidays.rs: the batch commands
\* ------------------------------------------------------------------------

\* the countries table; no modelled command changes it
countries == <<[id |-> 1, iso_code |-> "DE"]>>

\* Option<i64>
SomeInt(n) == [some |-> TRUE, v |-> n]

NoInt == [some |-> FALSE, v |-> 0]

\* statements issued on the pool: what ran before the failure stays
KeepPartial(before, partial) == partial

\* a Transaction dropped without commit is rolled back
RollbackOnDrop(before, partial) == before

\* INSERT ... ON CONFLICT(project_id, planning_period_id) DO UPDATE SET
\* required_hours, priority (lines 122-138)
UpsertRequirement(rows, req) ==
    LET priority == IF req.priority.some THEN req.priority.v ELSE DefaultPriority
    IN IF \E q \in Range(rows) : /\ q.project_id = req.project_id
                                 /\ q.planning_period_id = req.planning_period_id
       THEN MapRows(LAMBDA q : IF /\ q.project_id = req.project_id
                                  /\ q.planning_period_id = req.planning_period_id
                               THEN [q EXCEPT !.required_hours = req.required_hours,
                                              !.priority = priority]
                               ELSE q,
                    rows)
       ELSE Append(rows, Requirement(NextRowId(rows), req.project_id,
                                     req.planning_period_id, req.required_hours, priority))

\* the foreign keys of project_requirements
RequirementKeysHold(req) ==
    /\ \E p \in Range(projects) : p.id = req.project_id
    /\ \E p \in Range(planning_periods) : p.id = req.planning_period_id

\* the loop of lines 120-138 inside the transaction: the rows it leaves and
\* whether it ran to the end
RECURSIVE UpsertLoop(_, _)
UpsertLoop(rows, requirements) ==
    IF requirements = <<>> THEN [rows |-> rows, err |-> ""]
    ELSE IF ~RequirementKeysHold(requirements[1])
    THEN [rows |-> rows, err |-> "FOREIGN KEY constraint failed"]
    ELSE UpsertLoop(UpsertRequirement(rows, requirements[1]), Tail(requirements))

BatchReply(cmd, input, err) ==
    [cmd |-> cmd, n |-> ncmd + 1, ok |-> err = "", err |-> err, input |-> input]

batch_upsert_project_requirements(requirements) ==
    /\ ncmd' = ncmd + 1
    /\ LET out == UpsertLoop(project_requirements, requirements)
       IN /\ project_requirements' =
                 IF out.err = "" THEN out.rows
                 ELSE RollbackOnDrop(project_requirements, out.rows)
          /\ reply' = BatchReply("batch_upsert_project_requirements", requirements, out.err)
    /\ hist' = Touch(hist)
    /\ UNCHANGED <<planning_periods, people, projects, assignments, absences, holidays,
                   person_job_assignments, job_overhead_tasks, run, del, clock, written>>

\* the loop of lines 275-294
RECURSIVE HolidayLoop(_, _)
HolidayLoop(rows, hs) ==
    IF hs = <<>> THEN [rows |-> rows, err |-> ""]
    ELSE IF DateGt(hs[1].start_date, hs[1].end_date)
    THEN [rows |-> rows, err |-> "Start date must be on or before end date"]
    ELSE IF \A c \in Range(countries) : c.id # hs[1].country_id
    THEN [rows |-> rows, err |-> "FOREIGN KEY constraint failed"]
    ELSE HolidayLoop(Append(rows, [id |-> NextRowId(rows), country_id |-> hs[1].country_id,
                                   start_date |-> hs[1].start_date,
                                   end_date |-> hs[1].end_date]),
                     Tail(hs))

batch_create_holidays(hs) ==
    /\ ncmd' = ncmd + 1
    /\ LET out == HolidayLoop(holidays, hs)
       IN /\ holidays' = IF out.err = "" THEN out.rows
                         ELSE RollbackOnDrop(holidays, out.rows)
          /\ reply' = BatchReply("batch_create_holidays", hs, out.err)
    /\ hist' = Touch(hist)
    /\ UNCHANGED <<planning_periods, people, projects, project_requirements, assignments,
                   absences, person_job_assignments, job_overhead_tasks,
                   run, del, clock, written>>

\* items per batch
MaxBatch == 2

\* project 9 does not exist
RequirementInputs ==
    [project_id : {2, 9}, planning_period_id : {1}, required_hours : {R(40)},
     priority : {NoInt, SomeInt(30)}]

\* country 9 does not exist; the second pair of dates is in the wrong order
HolidayInputs ==
    {[country_id |-> c, start_date |-> Date(d[1]), end_date |-> Date(d[2])] :
        c \in {1, 9}, d \in {<<4, 5>>, <<5, 4>>}}

Batches(items) == UNION {[1..n -> items] : n \in 0..MaxBatch}

InitBatch ==
    /\ InitRunState
    /\ InitWorld("plain")
    /\ project_requirements \in CmdRequirementTables
    /\ assignments = <<>>

NextBatch ==
    \/ \E requirements \in Batches(RequirementInputs) :
          ncmd < MaxEdits /\ batch_upsert_project_requirements(requirements)
    \/ \E hs \in Batches(HolidayInputs) : ncmd < MaxEdits /\ batch_create_holidays(hs)

SpecBatch == InitBatch /\ [][NextBatch]_vars

\* the item cannot be stored
ItemFails(cmd, item) ==
    IF cmd = "batch_create_holidays"
    THEN \/ item.start_date.pos > item.end_date.pos
         \/ item.country_id \notin {c.id : c \in Range(countries)}
    ELSE \/ item.project_id \notin {q.id : q \in Range(projects)}
         \/ item.planning_period_id \notin {q.id : q \in Range(planning_periods)}

\* C14: a batch with an item that cannot be stored returns an error and
\* leaves both tables as they were, the items before the failing one
\* included; a batch without such an item returns Ok and every item of it is
\* in its table.
C14_BatchAllOrNothing ==
    [][(reply' # reply /\ reply'.cmd \in {"batch_upsert_project_requirements",
                                           "batch_create_holidays"}) =>
          LET batch == reply'.input
              fails == \E i \in 1..Len(batch) : ItemFails(reply'.cmd, batch[i])
          IN /\ reply'.ok = ~fails
             /\ fails => UNCHANGED <<project_requirements, holidays>>
             /\ (~fails /\ reply'.cmd = "batch_create_holidays") =>
                   /\ UNCHANGED project_requirements
                   /\ Len(holidays') = Len(holidays) + Len(batch)
                   /\ SubSeq(holidays', 1, Len(holidays)) = holidays
                   /\ \A i \in 1..Len(batch) :
                         LET h == holidays'[Len(holidays) + i]
                         IN /\ h.country_id = batch[i].country_id
                            /\ h.start_date = batch[i].start_date
                            /\ h.end_date = batch[i].end_date
             /\ (~fails /\ reply'.cmd = "batch_upsert_project_requirements") =>
                   /\ UNCHANGED holidays
                   /\ \A i \in 1..Len(batch) :
                         \E q \in Range(project_requirements') :
                            /\ q.project_id = batch[i].project_id
                            /\ q.planning_period_id = batch[i].planning_period_id]_vars

\* a batch of holidays whose second item has its dates in the wrong order
\* was refused, and the table holds nothing of it
C14_Witness ==
    /\ reply.cmd = "batch_create_holidays"
    /\ ~reply.ok
    /\ Len(reply.input) = 2
    /\ ~ItemFails(reply.cmd, reply.input[1])
    /\ ItemFails(reply.cmd, reply.input[2])
    /\ holidays = <<>>

\* ------------------------------------------------------------------------
\* capacity/mod.rs: the capacity formulas as functions of their arguments
\* ------------------------------------------------------------------------

\* the deductions taken from base_hours without the floor at 0.0
calculate_available_hours_unfloored(base_hours, absence_hours, holiday_hours, required_overhead_hours, optional_overhead_hours, optional_weight) ==
    LET weighted_optional == RMul(optional_overhead_hours, optional_weight)
    IN RSub(RSub(RSub(RSub(base_hours, absence_hours), holiday_hours),
                 required_overhead_hours), weighted_optional)

calculate_available_hours(base_hours, absence_hours, holiday_hours, required_overhead_hours, optional_overhead_hours, optional_weight) ==
    LET weighted_optional == RMul(optional_overhead_hours, optional_weight)
    IN RMax(RSub(RSub(RSub(RSub(base_hours, absence_hours), holiday_hours),
                      required_overhead_hours), weighted_optional), Zero)

\* a function or a view returns out; it writes nothing
Report(cmd, input, out) ==
    /\ reply' = [cmd |-> cmd, n |-> 0, ok |-> TRUE, input |-> input, out |-> out]
    /\ UNCHANGED <<store, run, del, clock, written, hist, ncmd>>

InitCalc ==
    /\ \E w \in OkWorlds : InitWorld(w)
    /\ project_requirements = <<>>
    /\ assignments = <<>>
    /\ InitRunState

\* the arguments are those of the unit tests (mod.rs 799-931) and zero
NextCalc ==
    \/ \E base \in {Zero, R(100), R(160)}, a \in {Zero, R(16), R(50)},
          h \in {Zero, R(8), R(30)}, r \in {Zero, R(8), R(30)},
          o \in {Zero, R(4), R(20)}, w \in {Zero, Frac(1, 2), R(1)} :
          Report("calculate_available_hours", <<base, a, h, r, o, w>>,
                 calculate_available_hours(base, a, h, r, o, w))
    \/ \E person \in Range(people), planning_period \in Range(planning_periods) :
          Report("calculate_person_available_hours", <<person.id, planning_period.id>>,
                 calculate_person_available_hours(person, planning_period))
    \/ \E available_hours \in {Zero, R(20), R(40)},
          allocation_percentage \in {Zero, R(50), R(100)},
          productivity_factor \in {Zero, Frac(1, 2), Frac(4, 5), R(1)} :
          Report("calculate_assignment_effective_hours",
                 <<available_hours, allocation_percentage, productivity_factor>>,
                 calculate_assignment_effective_hours(
                     available_hours, allocation_percentage, productivity_factor))

SpecCalc == InitCalc /\ [][NextCalc]_vars

\* C15: calculate_available_hours never returns a negative value: it returns
\* base - a - h - r - o*w when that expression is non-negative and 0
\* otherwise; the available_hours of calculate_person_available_hours are
\* never negative either, and are 0 once the absence, holiday and required
\* overhead hours of the person alone exceed the base hours.
C15_AvailableHoursFloor ==
    /\ reply.cmd = "calculate_available_hours" =>
          LET in == reply.input
              deducted == RSub(in[1], RAdd(RAdd(RAdd(RMul(in[5], in[6]), in[4]),
                                                in[3]), in[2]))
          IN /\ RLe(Zero, reply.out)
             /\ RLe(Zero, deducted) => reply.out = deducted
             /\ RLt(deducted, Zero) => reply.out = Zero
    /\ reply.cmd = "calculate_person_available_hours" /\ reply.out.ok =>
          /\ RLe(Zero, reply.out.available_hours)
          /\ RLt(reply.out.base_hours,
                 RAdd(RAdd(reply.out.absence_hours, reply.out.holiday_hours),
                      reply.out.overhead_hours))
                => reply.out.available_hours = Zero

\* the deductions of the unit test test_available_hours_floor_at_zero
\* (50 + 30 + 30 from 100) exceed the base hours and 0 comes back
C15_Witness ==
    /\ reply.cmd = "calculate_available_hours"
    /\ reply.input = <<R(100), R(50), R(30), R(30), Zero, Frac(1, 2)>>
    /\ reply.out = Zero

\* C16: calculate_assignment_effective_hours(available, pct, productivity)
\* is available * (pct / 100) * productivity: it is 0 whenever an argument
\* is 0, and scaling one argument by k with the other two fixed scales the
\* result by k; 40 h at 100% and productivity 0.8 give 32 h.
C16_EffectiveHoursLinear ==
    reply.cmd = "calculate_assignment_effective_hours" =>
        LET in == reply.input
        IN /\ RMul(reply.out, Hundred) = RMul(in[1], RMul(in[2], in[3]))
           /\ Zero \in Range(in) => reply.out = Zero
           /\ \A k \in {Zero, Frac(1, 2), R(2), R(3)} :
                 /\ calculate_assignment_effective_hours(RMul(k, in[1]), in[2], in[3])
                        = RMul(k, reply.out)
                 /\ calculate_assignment_effective_hours(in[1], RMul(k, in[2]), in[3])
                        = RMul(k, reply.out)
                 /\ calculate_assignment_effective_hours(in[1], in[2], RMul(k, in[3]))
                        = RMul(k, reply.out)
           /\ in = <<R(40), R(100), Frac(4, 5)>> => reply.out = R(32)

\* the unit test test_effective_hours_full_allocation_expert: 40 h, 100%, 0.8
C16_Witness ==
    /\ reply.cmd = "calculate_assignment_effective_hours"
    /\ reply.input = <<R(40), R(100), Frac(4, 5)>>
    /\ reply.out = R(32)

\* ------------------------------------------------------------------------
\* commands/capacity.rs: the reporting views
\* ------------------------------------------------------------------------

\* a null column read as NaN instead of 0.0
unwrap_or_nan(x) == IF x = NULL THEN NaN ELSE x

\* Option<f64>::unwrap_or(0.0) on a calculated column
unwrap_or_zero(x) == IF x = NULL THEN Zero ELSE x

\* viable only from 100% on
IsViableAtHundred(staffing_percentage) == RLe(Hundred, staffing_percentage)

\* "staffing_percentage >= 99.95"
IsViable(staffing_percentage) == RLe(Frac(1999, 20), staffing_percentage)

\* the PersonCapacity built from the person's assignments of the period
PersonCapacity(person, planning_period, person_assignments) ==
    LET breakdown == calculate_person_available_hours(person, planning_period)
        n == Len(person_assignments)
        allocation_pct == [i \in 1..n |->
            unwrap_or_zero(person_assignments[i].calculated_allocation_percentage)]
        effective_hours == [i \in 1..n |->
            unwrap_or_zero(person_assignments[i].calculated_effective_hours)]
        total_allocated_hours ==
            SumSeq([i \in 1..n |-> RMul(breakdown.available_hours,
                                        RDiv(allocation_pct[i], Hundred))])
        utilization ==
            IF RGt(breakdown.available_hours, Zero)
            THEN RMul(RDiv(total_allocated_hours, breakdown.available_hours), Hundred)
            ELSE Zero
    IN IF ~breakdown.ok THEN [ok |-> FALSE, err |-> "available hours"]
       ELSE [ok |-> TRUE,
             person_id |-> person.id,
             total_available_hours |-> breakdown.available_hours,
             total_allocated_hours |-> total_allocated_hours,
             total_effective_hours |-> SumSeq(effective_hours),
             utilization_percentage |-> utilization,
             is_over_committed |-> RGt(utilization, Hundred),
             assignments |-> [i \in 1..n |->
                 [assignment_id |-> person_assignments[i].id,
                  project_id |-> person_assignments[i].project_id,
                  allocation_percentage |-> allocation_pct[i],
                  effective_hours |-> effective_hours[i]]],
             absence_days |-> breakdown.absence_days,
             absence_hours |-> breakdown.absence_hours,
             holiday_days |-> breakdown.holiday_days,
             holiday_hours |-> breakdown.holiday_hours,
             base_available_hours |-> breakdown.base_hours,
             overhead_hours |-> breakdown.overhead_hours,
             optional_overhead_hours |-> breakdown.optional_overhead_hours]

\* the ProjectStaffing built from the project's assignments of the period
\* whose person is on file
ProjectStaffing(requirement, planning_period, project_assignments) ==
    LET n == Len(project_assignments)
        breakdown == [i \in 1..n |->
            calculate_person_available_hours(
                PeopleMap(people)[project_assignments[i].person_id], planning_period)]
        allocation_pct == [i \in 1..n |->
            unwrap_or_zero(project_assignments[i].calculated_allocation_percentage)]
        effective_hours == [i \in 1..n |->
            unwrap_or_zero(project_assignments[i].calculated_effective_hours)]
        total_allocated_hours ==
            SumSeq([i \in 1..n |-> RMul(breakdown[i].available_hours,
                                        RDiv(allocation_pct[i], Hundred))])
        total_effective_hours == SumSeq(effective_hours)
        staffing_percentage ==
            IF RGt(requirement.required_hours, Zero)
            THEN RMul(RDiv(total_effective_hours, requirement.required_hours), Hundred)
            ELSE Zero
        is_viable == IsViable(staffing_percentage)
        shortfall == IF ~is_viable
                     THEN RSub(requirement.required_hours, total_effective_hours)
                     ELSE Zero
    IN IF \E i \in 1..n : ~breakdown[i].ok THEN [ok |-> FALSE, err |-> "available hours"]
       ELSE [ok |-> TRUE,
             project_id |-> requirement.project_id,
             required_hours |-> requirement.required_hours,
             total_allocated_hours |-> total_allocated_hours,
             total_effective_hours |-> total_effective_hours,
             staffing_percentage |-> staffing_percentage,
             is_viable |-> is_viable,
             shortfall |-> shortfall,
             assigned_people |-> [i \in 1..n |->
                 [assignment_id |-> project_assignments[i].id,
                  person_id |-> project_assignments[i].person_id,
                  allocation_percentage |-> allocation_pct[i],
                  productivity_factor |-> project_assignments[i].productivity_factor,
                  effective_hours |-> effective_hours[i],
                  absence_days |-> breakdown[i].absence_days,
                  absence_hours |-> breakdown[i].absence_hours,
                  holiday_days |-> breakdown[i].holiday_days,
                  holiday_hours |-> breakdown[i].holiday_hours,
                  overhead_hours |-> breakdown[i].overhead_hours,
                  optional_overhead_hours |-> breakdown[i].optional_overhead_hours]]]

\* the three views as functions of the assignments table they read
get_capacity_overview(planning_period_id, rows) ==
    LET periods == SelectSeq(planning_periods, LAMBDA p : p.id = planning_period_id)
        planning_period == periods[1]
        requirements == SelectSeq(project_requirements,
                            LAMBDA r : r.planning_period_id = planning_period_id)
        requirements_map == RequirementsMap(requirements)
        asgs == SelectSeq(rows, LAMBDA a : a.planning_period_id = planning_period_id)
        people_capacity == [i \in 1..Len(people) |->
            PersonCapacity(people[i], planning_period,
                           SelectSeq(asgs, LAMBDA a : a.person_id = people[i].id))]
        required == SelectSeq(projects, LAMBDA p : p.id \in DOMAIN requirements_map)
        project_staffing == [i \in 1..Len(required) |->
            ProjectStaffing(requirements_map[required[i].id], planning_period,
                SelectSeq(asgs, LAMBDA a :
                    /\ a.project_id = required[i].id
                    /\ \E q \in Range(people) : q.id = a.person_id))]
    IN IF periods = <<>> THEN [ok |-> FALSE, err |-> "Failed to fetch planning period"]
       ELSE IF \E i \in 1..Len(people) : ~people_capacity[i].ok
       THEN [ok |-> FALSE, err |-> "available hours"]
       ELSE [ok |-> TRUE,
             total_people |-> Len(people),
             total_projects |-> Len(required),
             over_committed_people |->
                 Cardinality({i \in 1..Len(people) : people_capacity[i].is_over_committed}),
             under_staffed_projects |->
                 Cardinality({i \in 1..Len(required) : ~project_staffing[i].is_viable}),
             people_capacity |-> people_capacity,
             project_staffing |-> project_staffing]

get_person_capacity(person_id, planning_period_id, rows) ==
    LET found == SelectSeq(people, LAMBDA p : p.id = person_id)
        periods == SelectSeq(planning_periods, LAMBDA p : p.id = planning_period_id)
    IN IF found = <<>> THEN [ok |-> FALSE, err |-> "Failed to fetch person"]
       ELSE IF periods = <<>> THEN [ok |-> FALSE, err |-> "Failed to fetch planning period"]
       ELSE PersonCapacity(found[1], periods[1],
                SelectSeq(rows, LAMBDA a : /\ a.person_id = person_id
                                           /\ a.planning_period_id = planning_period_id))

get_project_staffing(project_id, planning_period_id, rows) ==
    LET found == SelectSeq(projects, LAMBDA p : p.id = project_id)
        periods == SelectSeq(planning_periods, LAMBDA p : p.id = planning_period_id)
        requirement == SelectSeq(project_requirements,
                           LAMBDA r : /\ r.project_id = project_id
                                      /\ r.planning_period_id = planning_period_id)
        asgs == SelectSeq(rows, LAMBDA a : /\ a.project_id = project_id
                                           /\ a.planning_period_id = planning_period_id)
    IN IF found = <<>> THEN [ok |-> FALSE, err |-> "Failed to fetch project"]
       ELSE IF periods = <<>> THEN [ok |-> FALSE, err |-> "Failed to fetch planning period"]
       ELSE IF requirement = <<>>
       THEN [ok |-> FALSE, err |-> "Failed to fetch project requirement"]
       ELSE IF \E a \in Range(asgs) : \A q \in Range(people) : q.id # a.person_id
       THEN [ok |-> FALSE, err |-> "Failed to fetch person"]
       ELSE ProjectStaffing(requirement[1], periods[1], asgs)

\* person 1 on projects 1 and 2 and person 2 on project 1, each row on file
\* or not; person 1 has 30 available hours in the plain period 1, and the
\* calculated fields are null or those of 19.988, 19.99 and 19.992 effective
\* hours (99.94%, 99.95% and 99.96% of 20 required hours) at productivity 1.0
InitView ==
    /\ \E w \in {"plain", "zero", "bad_period"} : InitWorld(w)
    /\ \E h \in {Zero, R(20)} :
          project_requirements = <<Requirement(1, 1, 1, R(20), 10),
                                   Requirement(2, 2, 1, h, 10)>>
    /\ \E S \in SUBSET {1, 2, 3} :
          \E c \in [S -> {NULL, Frac(4997, 250), Frac(1999, 100), Frac(2499, 125)}] :
             LET cands == <<<<1, 1>>, <<1, 2>>, <<2, 1>>>>
                 ids   == SelectSeq(<<1, 2, 3>>, LAMBDA i : i \in S)
             IN assignments = [k \in 1..Len(ids) |->
                    [NewAssignment(ids[k], cands[ids[k]][1], cands[ids[k]][2], 1, R(1))
                     EXCEPT
                       !.calculated_allocation_percentage =
                           IF c[ids[k]] = NULL THEN NULL
                           ELSE RMul(RDiv(c[ids[k]], R(30)), Hundred),
                       !.calculated_effective_hours = c[ids[k]],
                       !.last_calculated_at = IF c[ids[k]] = NULL THEN None ELSE 1]]
    /\ InitRunState

NextView ==
    \/ \E p \in {1, 3} :
          Report("get_capacity_overview", <<p>>, get_capacity_overview(p, assignments))
    \/ \E person_id \in {1, 2, 9}, p \in {1, 3} :
          Report("get_person_capacity", <<person_id, p>>,
                 get_person_capacity(person_id, p, assignments))
    \/ \E project_id \in {1, 2, 3, 9}, p \in {1, 3} :
          Report("get_project_staffing", <<project_id, p>>,
                 get_project_staffing(project_id, p, assignments))

SpecView == InitView /\ [][NextView]_vars

\* the ProjectStaffing records of the last reply
Staffings ==
    IF reply.cmd = "get_project_staffing"
    THEN (IF reply.out.ok THEN {reply.out} ELSE {})
    ELSE IF reply.cmd = "get_capacity_overview"
    THEN (IF reply.out.ok THEN Range(reply.out.project_staffing) ELSE {})
    ELSE {}

\* the stored effective hours of the project's rows in the period asked for
StoredEffectiveHours(project_id) ==
    LET rows == {a \in Range(assignments) :
                    /\ a.project_id = project_id
                    /\ a.planning_period_id = reply.input[Len(reply.input)]
                    /\ a.calculated_effective_hours # NULL}
    IN SumOver({a.id : a \in rows},
               [id \in {a.id : a \in rows} |->
                   (CHOOSE a \in rows : a.id = id).calculated_effective_hours])

\* C17: get_project_staffing and get_capacity_overview report a project
\* viable, with shortfall 0, exactly when its staffing_percentage is at least
\* 99.95; for a positive requirement that percentage is total_effective_hours
\* / required_hours * 100, so the project is viable exactly when the stored
\* effective hours reach 0.9995 of the required hours; a project that is not
\* viable has shortfall = required_hours - total_effective_hours.
C17_ViabilityThreshold ==
    \A s \in Staffings :
        /\ s.is_viable <=> RLe(Frac(1999, 20), s.staffing_percentage)
        /\ s.total_effective_hours = StoredEffectiveHours(s.project_id)
        /\ RGt(s.required_hours, Zero) =>
              /\ s.staffing_percentage =
                     RMul(RDiv(s.total_effective_hours, s.required_hours), Hundred)
              /\ s.is_viable <=> RLe(RMul(R(9995), s.required_hours),
                                     RMul(R(10000), s.total_effective_hours))
        /\ s.is_viable => s.shortfall = Zero
        /\ ~s.is_viable =>
              s.shortfall = RSub(s.required_hours, s.total_effective_hours)

\* one overview with a project at 99.96% (viable, shortfall 0) and a project
\* at 99.94% (not viable, shortfall 0.012 h)
C17_Witness ==
    /\ reply.cmd = "get_capacity_overview"
    /\ \E s \in Staffings :
          /\ s.staffing_percentage = Frac(2499, 25)
          /\ s.is_viable
          /\ s.shortfall = Zero
    /\ \E s \in Staffings :
          /\ s.staffing_percentage = Frac(4997, 50)
          /\ ~s.is_viable
          /\ s.shortfall = Frac(3, 250)

\* the assignments table with every null calculated field replaced by 0.0
NullsAsZero ==
    [i \in 1..Len(assignments) |->
        [assignments[i] EXCEPT
           !.calculated_allocation_percentage = IF @ = NULL THEN Zero ELSE @,
           !.calculated_effective_hours = IF @ = NULL THEN Zero ELSE @]]

\* what the view needs to succeed, none of it a calculated field: the rows
\* asked for are on file and the available hours of the people concerned
\* can be calculated
ViewCanAnswer ==
    LET in == reply.input
        planning_period_id == in[Len(in)]
        periods == {p \in Range(planning_periods) : p.id = planning_period_id}
        Calculable(S) ==
            \A person \in S, p \in periods :
                calculate_person_available_hours(person, p).ok
    IN /\ periods # {}
       /\ reply.cmd = "get_capacity_overview" => Calculable(Range(people))
       /\ reply.cmd = "get_person_capacity" =>
             /\ \E person \in Range(people) : person.id = in[1]
             /\ Calculable({person \in Range(people) : person.id = in[1]})
       /\ reply.cmd = "get_project_staffing" =>
             /\ \E project \in Range(projects) : project.id = in[1]
             /\ \E r \in Range(project_requirements) :
                   r.project_id = in[1] /\ r.planning_period_id = planning_period_id
             /\ Calculable({person \in Range(people) :
                   \E a \in Range(assignments) :
                      /\ a.person_id = person.id
                      /\ a.project_id = in[1]
                      /\ a.planning_period_id = planning_period_id})

\* the summaries of single assignments in the last reply
Summaries ==
    IF reply.cmd = "get_person_capacity" THEN Range(reply.out.assignments)
    ELSE IF reply.cmd = "get_project_staffing" THEN Range(reply.out.assigned_people)
    ELSE UNION ({Range(pc.assignments) : pc \in Range(reply.out.people_capacity)}
                \cup {Range(ps.assigned_people) : ps \in Range(reply.out.project_staffing)})

\* C18: no reporting view fails over a null calculated field: a view
\* succeeds exactly when the rows asked for are on file and the available
\* hours can be calculated; a null allocation percentage or null effective
\* hours appear as 0 in the assignment's summary, and the whole answer is
\* the one the view gives when the nulls are stored as 0.
C18_NullAsZero ==
    reply.cmd \in {"get_capacity_overview", "get_person_capacity",
                   "get_project_staffing"} =>
        /\ reply.out.ok <=> ViewCanAnswer
        /\ reply.cmd = "get_capacity_overview" =>
              reply.out = get_capacity_overview(reply.input[1], NullsAsZero)
        /\ reply.cmd = "get_person_capacity" =>
              reply.out = get_person_capacity(reply.input[1], reply.input[2], NullsAsZero)
        /\ reply.cmd = "get_project_staffing" =>
              reply.out = get_project_staffing(reply.input[1], reply.input[2], NullsAsZero)
        /\ reply.out.ok =>
              \A m \in Summaries : \A a \in Range(assignments) :
                 a.id = m.assignment_id =>
                    /\ a.calculated_allocation_percentage = NULL
                          => m.allocation_percentage = Zero
                    /\ a.calculated_effective_hours = NULL => m.effective_hours = Zero

\* project 1 staffed by one row never calculated and one row with stored
\* hours: the view answers, and its total is the stored hours alone
C18_Witness ==
    /\ reply.cmd = "get_project_staffing"
    /\ reply.out.ok
    /\ \E m \in Summaries, a \in Range(assignments) :
          /\ a.id = m.assignment_id
          /\ a.calculated_effective_hours = NULL
          /\ m.effective_hours = Zero
    /\ \E m \in Summaries : m.effective_hours = Frac(2499, 125)
    /\ reply.out.total_effective_hours = Frac(2499, 125)

\* ------------------------------------------------------------------------
\* optimization of a store that holds pinned assignments
\* ------------------------------------------------------------------------

\* a row whose is_pinned and pinned_allocation_percentage columns are set
Pinned(a, pinned_allocation_percentage) ==
    [a EXCEPT !.is_pinned = TRUE,
              !.pinned_allocation_percentage = pinned_allocation_percentage]

\* person 1 on projects 1 and 2 and person 2 on project 1, each row on file
\* or not, unpinned or pinned at 60% or 80%
InitPin ==
    /\ InitRunState
    /\ InitWorld("plain")
    /\ \E h \in RequiredHours, p \in Priorities :
          project_requirements = <<Requirement(1, 1, 1, h, p),
                                   Requirement(2, 2, 1, R(20), 10)>>
    /\ \E S \in SUBSET {1, 2, 3} :
          \E c \in [S -> {NULL, R(60), R(80)}] :
             LET cands == <<<<1, 1>>, <<1, 2>>, <<2, 1>>>>
                 ids   == SelectSeq(<<1, 2, 3>>, LAMBDA i : i \in S)
                 Row(i) == NewAssignment(i, cands[i][1], cands[i][2], 1, R(1))
             IN assignments = [k \in 1..Len(ids) |->
                    IF c[ids[k]] = NULL THEN Row(ids[k])
                    ELSE Pinned(Row(ids[k]), c[ids[k]])]

SpecPin == InitPin /\ [][NextOpt]_vars

\* the sum of the pinned allocation percentages of the person's rows
PinnedSum(rows, person_id) ==
    SumSeq(MapRows(LAMBDA a : a.pinned_allocation_percentage,
                   SelectSeq(rows, LAMBDA a : a.person_id = person_id /\ a.is_pinned)))

C20_TieOrderFromData ==
    \A r1 \in Runs, r2 \in Runs :
        LET Loads(st) == st.pc \in {"allocating", "persisting", "ok"}
            Read(st) == <<st.planning_period_id,
                          [i \in 1..Len(st.assignments) |-> FixedColumns(st.assignments[i])],
                          st.requirements_map>>
        IN Loads(run[r1]) /\ Loads(run[r2]) /\ Read(run[r1]) = Read(run[r2]) =>
              /\ run[r1].order = run[r2].order
              /\ Persisting(run[r1]) /\ Persisting(run[r2]) =>
                    run[r1].calculations = run[r2].calculations

\* ------------------------------------------------------------------------
\* assignments of productivity 0 and people assigned more than once
\* (checked under SpecOpt)
\* ------------------------------------------------------------------------

\* C21: an assignment with productivity_factor 0 contributes nothing: the
\* calculation recorded for it has allocation percentage 0 and effective
\* hours 0, and a pass in which all of a person's assignments have
\* productivity_factor 0 leaves that person's remaining_percentage as it was.
C21_ZeroProductivityContributesNothing ==
    \A r \in Runs : \A k \in 1..Len(run[r].trace) :
        LET t == run[r].trace[k]
            calcs == PassCalculations(run[r], t)
        IN /\ \A i \in 1..Len(calcs) :
                 t.caps[i].productivity_factor = Zero =>
                    /\ calcs[i].calculated_allocation_percentage = Zero
                    /\ calcs[i].calculated_effective_hours = Zero
           /\ \A pid \in DOMAIN t.before :
                 (\A i \in 1..Len(t.caps) :
                     t.caps[i].assignment.person_id = pid =>
                        t.caps[i].productivity_factor = Zero)
                 => RemainingAfter(run[r], k, pid) = t.before[pid].remaining_percentage

\* C22: the allocation percentages a run records for the assignments of one
\* person add up to at most 100; stated for the runs whose assignments all
\* have a positive productivity_factor, where no division by the factor
\* can yield NaN.
C22_PersonWithinHundred ==
    \A r \in Runs :
        (\A a \in Range(run[r].assignments) : RGt(a.productivity_factor, Zero)) =>
            \A pid \in DOMAIN run[r].person_states :
                LET mine == SelectSeq(run[r].calculations, LAMBDA c :
                                \E a \in Range(run[r].assignments) :
                                    a.id = c.assignment_id /\ a.person_id = pid)
                IN RLe(SumSeq([i \in 1..Len(mine) |->
                                  mine[i].calculated_allocation_percentage]),
                       Hundred)

\* ------------------------------------------------------------------------
\* calculate_person_available_hours over stores of absences, holidays and
\* overhead tasks
\* ------------------------------------------------------------------------

\* person 3 works on no day; the others are those of the other stores
AvailPeople ==
    BasePeople \o <<[id |-> 3, available_hours_per_week |-> R(40), working_days |-> <<>>,
                     country_id |-> 1]>>

\* the rows with the given indices, in table order, ids 1..n
Rows(cands, S) ==
    LET ids == SelectSeq([i \in 1..Len(cands) |-> i], LAMBDA i : i \in S)
    IN [k \in 1..Len(ids) |-> [cands[ids[k]] EXCEPT !.id = k]]

\* absences of person 1: one day, two days over the Friday, three days
\* entered for a span of five that leaves period 1, and a span entered
\* backwards (create_absence stores what it is given)
AbsenceCands ==
    <<[id |-> 0, person_id |-> 1, start_date |-> Date(1), end_date |-> Date(1), days |-> 1],
      [id |-> 0, person_id |-> 1, start_date |-> Date(4), end_date |-> Date(5), days |-> 2],
      [id |-> 0, person_id |-> 1, start_date |-> Date(5), end_date |-> Date(9), days |-> 3],
      [id |-> 0, person_id |-> 1, start_date |-> Date(9), end_date |-> Date(3), days |-> 1]>>

\* holidays of country 1: Friday to Tuesday, a Wednesday, Sunday to Monday
HolidayCands ==
    <<[id |-> 0, country_id |-> 1, start_date |-> Date(4), end_date |-> Date(8)],
      [id |-> 0, country_id |-> 1, start_date |-> Date(2), end_date |-> Date(2)],
      [id |-> 0, country_id |-> 1, start_date |-> Date(6), end_date |-> Date(7)]>>

\* tasks of job 1: 4 h weekly required, 1 h daily optional at weight 0.4,
\* 2 h weekly optional at weight 1.0 (effort_period is 'daily' or 'weekly'
\* by the CHECK of the table)
TaskCands ==
    <<[id |-> 0, job_id |-> 1, effort_hours |-> R(4), effort_period |-> "weekly",
       is_optional |-> FALSE, optional_weight |-> Frac(1, 2)],
      [id |-> 0, job_id |-> 1, effort_hours |-> R(1), effort_period |-> "daily",
       is_optional |-> TRUE, optional_weight |-> Frac(2, 5)],
      [id |-> 0, job_id |-> 1, effort_hours |-> R(2), effort_period |-> "weekly",
       is_optional |-> TRUE, optional_weight |-> R(1)]>>

InitAvail ==
    /\ InitRunState
    /\ planning_periods = BasePeriods(Date(6))
    /\ people = AvailPeople
    /\ projects = BaseProjects
    /\ project_requirements = <<>>
    /\ assignments = <<>>
    /\ \E S \in SUBSET (1..Len(AbsenceCands)) : absences = Rows(AbsenceCands, S)
    /\ \E S \in SUBSET (1..Len(HolidayCands)) : holidays = Rows(HolidayCands, S)
    /\ person_job_assignments =
           <<[id |-> 1, person_id |-> 1, job_id |-> 1, planning_period_id |-> 1],
             [id |-> 2, person_id |-> 2, job_id |-> 1, planning_period_id |-> 2]>>
    /\ \E S \in {{}, {1, 2}, {2, 3}, {1, 2, 3}} : job_overhead_tasks = Rows(TaskCands, S)

\* one calculation per behaviour
NextAvail ==
    /\ reply = NoReply
    /\ \E person \in Range(people), planning_period \in Range(planning_periods) :
          Report("calculate_person_available_hours", <<person.id, planning_period.id>>,
                 calculate_person_available_hours(person, planning_period))

SpecAvail == InitAvail /\ [][NextAvail]_vars

\* the person and the period of the last calculation
AskedPerson == CHOOSE person \in Range(people) : person.id = reply.input[1]

AskedPeriod == CHOOSE p \in Range(planning_periods) : p.id = reply.input[2]

\* available_hours_per_week over the number of working days (0 for none);
\* the columns of these people are lists of weekdays without blanks
HoursPerDay(person) ==
    LET n == Cardinality({i \in 1..Len(person.working_days) : person.working_days[i] # ","})
    IN IF n > 0 THEN RDiv(person.available_hours_per_week, R(n)) ELSE Zero

\* the days of holiday h that count for the person in the period
CountedDays(h, person, period) ==
    {d \in h.start_date.pos..h.end_date.pos :
        /\ d >= period.start_date.pos
        /\ d <= period.end_date.pos
        /\ weekday(d) \in Range(person.working_days)
        /\ \A a \in Range(absences) :
              a.person_id = person.id => ~(a.start_date.pos <= d /\ d <= a.end_date.pos)}

\* C23: the holiday_days of a person are, summed over the holidays of the
\* person's country, the days that lie inside the holiday and the period,
\* fall on a working weekday of the person and lie inside none of the
\* person's absences; holiday_hours = holiday_days * hours_per_day; a person
\* without country has 0 holiday days and 0 holiday hours.
C23_HolidayDays ==
    reply.cmd = "calculate_person_available_hours" =>
        LET mine == SelectSeq(holidays, LAMBDA h : h.country_id = AskedPerson.country_id)
        IN /\ reply.out.ok
           /\ reply.out.holiday_days =
                 SumInt([i \in 1..Len(mine) |->
                            Cardinality(CountedDays(mine[i], AskedPerson, AskedPeriod))])
           /\ reply.out.holiday_hours =
                 RMul(R(reply.out.holiday_days), HoursPerDay(AskedPerson))
           /\ AskedPerson.country_id = None =>
                 reply.out.holiday_days = 0 /\ reply.out.holiday_hours = Zero

\* person 1 in period 1 with the Wednesday holiday and the Friday-to-Tuesday
\* holiday on file and absent on that Friday: the Wednesday alone counts
C23_Witness ==
    /\ reply.cmd = "calculate_person_available_hours"
    /\ reply.input = <<1, 1>>
    /\ Len(holidays) = 2
    /\ holidays[1].start_date = Date(4)
    /\ holidays[2].start_date = Date(2)
    /\ \E a \in Range(absences) : a.start_date = Date(4) /\ a.end_date = Date(5)
    /\ reply.out.holiday_days = 1
    /\ reply.out.holiday_hours = R(6)

\* C24: the absences deducted for a person are exactly the stored absences
\* of the person whose span intersects the period inclusively
\* (start_date <= period end and end_date >= period start), whatever was
\* stored; absence_days is the sum of their days as entered and
\* absence_hours = absence_days * hours_per_day.
C24_AbsencesByIntersection ==
    reply.cmd = "calculate_person_available_hours" =>
        LET intersecting == SelectSeq(absences, LAMBDA a :
                                /\ a.person_id = AskedPerson.id
                                /\ a.start_date.pos <= AskedPeriod.end_date.pos
                                /\ a.end_date.pos >= AskedPeriod.start_date.pos)
        IN /\ reply.out.absence_days =
                 SumInt([i \in 1..Len(intersecting) |-> intersecting[i].days])
           /\ reply.out.absence_hours =
                 RMul(R(reply.out.absence_days), HoursPerDay(AskedPerson))

\* the hours of one overhead task over a period of total_days days for a
\* person with n working days a week
OverheadOf(t, total_days, n) ==
    CASE t.effort_period = "weekly" -> RMul(t.effort_hours, Frac(total_days, 7))
      [] t.effort_period = "daily"  -> RMul(t.effort_hours, RMul(Frac(total_days, 7), R(n)))
      [] OTHER -> Zero

MaxSymbols == 5

Symbols == {"Mon", "Wed", "InvalidDay", ",", " "}

\* one person whose working_days column is any text of up to MaxSymbols symbols
InitDays ==
    /\ InitRunState
    /\ planning_periods = BasePeriods(Date(6))
    /\ \E n \in 0..MaxSymbols : \E working_days \in [1..n -> Symbols] :
          people = <<[id |-> 1, available_hours_per_week |-> R(40),
                      working_days |-> working_days, country_id |-> None]>>
    /\ projects = BaseProjects
    /\ project_requirements = <<>>
    /\ assignments = <<>>
    /\ absences = <<>>
    /\ holidays = <<>>
    /\ person_job_assignments = <<>>
    /\ job_overhead_tasks = <<>>

\* both parsers on the column, and is_working_day on one day of period 1
NextDays ==
    /\ reply = NoReply
    /\ \E person \in Range(people), d \in 0..6 :
          Report("parse_working_days", <<person.id, d>>,
                 [count |-> parse_working_days_count(person.working_days),
                  set |-> parse_working_days_set(person.working_days),
                  is_working_day |->
                      is_working_day(d, parse_working_days_set(person.working_days))])

SpecDays == InitDays /\ [][NextDays]_vars

\* the pieces of a column between two commas (or an end), as pairs of the
\* positions just outside
Pieces(s) ==
    LET cuts == {0, Len(s) + 1} \cup {i \in 1..Len(s) : s[i] = ","}
    IN {<<a, b>> \in cuts \X cuts : a < b /\ \A c \in cuts : ~(a < c /\ c < b)}

\* the positions of a piece that hold a word
Words(s, piece) == {i \in (piece[1] + 1)..(piece[2] - 1) : s[i] # " "}

\* C26: parse_working_days_set yields exactly the recognised abbreviations
\* among the comma-separated, trimmed tokens; parse_working_days_count
\* counts every token that is non-empty after trimming, recognised or not,
\* so count >= size of the set; the empty column gives 0 and the empty set;
\* is_working_day is false on every date when the set is empty.
C26_WorkingDaysParsers ==
    reply.cmd = "parse_working_days" =>
        LET s == people[1].working_days
            out == reply.out
        IN /\ Range(out.set) =
                 {s[i] : i \in {k \in 1..Len(s) :
                                   /\ s[k] \in Range(WeekdayNames)
                                   /\ \E piece \in Pieces(s) : Words(s, piece) = {k}}}
           /\ out.count = Cardinality({piece \in Pieces(s) : Words(s, piece) # {}})
           /\ out.count >= Len(out.set)
           /\ s = <<>> => out.count = 0 /\ out.set = <<>>
           /\ out.set = <<>> => ~out.is_working_day
           /\ out.is_working_day = (weekday(reply.input[2]) \in Range(out.set))

\* "Mon,InvalidDay,Wed" asked about a Wednesday: 3 tokens, the set {Mon, Wed}
C26_Witness ==
    /\ reply.cmd = "parse_working_days"
    /\ people[1].working_days = <<"Mon", ",", "InvalidDay", ",", "Wed">>
    /\ reply.input[2] = 2
    /\ reply.out.count = 3
    /\ reply.out.set = <<"Mon", "Wed">>
    /\ reply.out.is_working_day

\* ------------------------------------------------------------------------
\* commands/assignments.rs: delete_assignment; commands/requirements.rs:
\* delete_project_requirement
\* ------------------------------------------------------------------------

\* DELETE FROM assignments WHERE id = ?
delete_assignment(id) ==
    /\ AssignmentFrame
    /\ assignments' = SelectSeq(assignments, LAMBDA a : a.id # id)
    /\ hist' = Touch(hist)
    /\ reply' = [cmd |-> "delete_assignment", n |-> ncmd + 1, ok |-> TRUE, id |-> id]

\* DELETE FROM project_requirements WHERE id = ? (no other table refers to
\* a requirement, so nothing restricts or cascades)
delete_project_requirement(id) ==
    /\ ncmd' = ncmd + 1
    /\ project_requirements' = SelectSeq(project_requirements, LAMBDA q : q.id # id)
    /\ hist' = Touch(hist)
    /\ reply' = [cmd |-> "delete_project_requirement", n |-> ncmd + 1, ok |-> TRUE, id |-> id]
    /\ UNCHANGED <<planning_periods, people, projects, assignments, absences, holidays,
                   person_job_assignments, job_overhead_tasks, run, del, clock, written>>

\* person 1 on project 1 or 3 in period 1 or 2, for the whole period
ReqAssignmentInputs ==
    [person_id : {1}, project_id : {1, 3}, planning_period_id : {1, 2},
     productivity_factor : {Frac(1, 2)}, start_date : {NoDate}, end_date : {NoDate}]

\* no assignment yet; project 1 has a requirement in period 1, and in
\* period 2 or not
InitReq ==
    /\ InitRunState
    /\ InitWorld("plain")
    /\ project_requirements \in AsgRequirementTables
    /\ assignments = <<>>

NextReq ==
    \/ \E input \in ReqAssignmentInputs : ncmd < MaxEdits /\ create_assignment(input)
    \/ \E input \in ReqAssignmentInputs : ncmd < MaxEdits /\ update_assignment(1, input)
    \/ ncmd < MaxEdits /\ delete_assignment(1)
    \/ ncmd < MaxEdits /\ upsert_project_requirement(3, 1, R(20))
    \/ \E requirements \in Batches(RequirementInputs) :
          ncmd < MaxEdits /\ batch_upsert_project_requirements(requirements)
    \/ \E id \in {1, 2} : ncmd < MaxEdits /\ delete_project_requirement(id)
    \/ \E t \in {<<"project", 1>>, <<"planning_period", 1>>} :
          ncmd < MaxEdits /\ DeleteInvalidate(t[1], t[2])
    \/ DeleteProjectRow
    \/ DeletePlanningPeriodRow

SpecReq == InitReq /\ [][NextReq]_vars

\* C27: in every state reached through create/update/delete assignment,
\* upsert/batch-upsert/delete project requirement and delete project/period,
\* every stored assignment has a project_requirements row for its
\* (project_id, planning_period_id).
C27_AssignmentHasRequirement ==
    \A a \in Range(assignments) :
        \E q \in Range(project_requirements) :
            q.project_id = a.project_id /\ q.planning_period_id = a.planning_period_id

\* ------------------------------------------------------------------------
\* The calculated fields under assignment edits, optimizations and deletes
\* ------------------------------------------------------------------------

\* project 1 requires 20 hours in period 1; person 1 is assigned to it or not
InitCache ==
    /\ InitRunState
    /\ InitWorld("plain")
    /\ project_requirements = <<Requirement(1, 1, 1, R(20), 10)>>
    /\ assignments \in AssignmentTables(<<<<1, 1, R(1)>>>>)

NextCache ==
    \/ \E input \in ReqAssignmentInputs : ncmd < MaxCommands /\ create_assignment(input)
    \/ \E input \in ReqAssignmentInputs : ncmd < MaxCommands /\ update_assignment(1, input)
    \/ ncmd < MaxCommands /\ OptimizeStart(1, 1)
    \/ ProcessProject(1)
    \/ TakeTimestamp(1)
    \/ PersistOne(1)
    \/ OptimizeReturn(1)
    \/ \E t \in {<<"person", 1>>, <<"project", 1>>, <<"planning_period", 1>>} :
          ncmd < MaxCommands /\ DeleteInvalidate(t[1], t[2])
    \/ DeletePersonRow
    \/ DeleteProjectRow
    \/ DeletePlanningPeriodRow

SpecCache == InitCache /\ [][NextCache]_vars

\* C28: under create/update assignment, optimize_assignments and delete
\* person/project/period, the calculated_allocation_percentage, the
\* calculated_effective_hours and the last_calculated_at of every stored
\* assignment are all null or all non-null, and the rows a run has written
\* (and nothing has cleared since) all carry the timestamp of that run.
C28_CalculatedFieldsTogether ==
    \A a \in Range(assignments) :
        /\ \/ /\ a.calculated_allocation_percentage = NULL
              /\ a.calculated_effective_hours = NULL
              /\ a.last_calculated_at = None
           \/ /\ a.calculated_allocation_percentage # NULL
              /\ ~IsNaN(a.calculated_allocation_percentage)
              /\ a.calculated_effective_hours # NULL
              /\ ~IsNaN(a.calculated_effective_hours)
              /\ a.last_calculated_at # None
        /\ \A r \in Runs :
              (a.id \in written[r] /\ a.last_calculated_at # None) =>
                  a.last_calculated_at = run[r].now

\* a finished run has written two rows, both with its timestamp, after an
\* earlier run had stamped the first of them
C28_Witness ==
    /\ run[1].pc = "ok"
    /\ Cardinality(written[1]) = 2
    /\ run[1].now = 2
    /\ Len(assignments) = 2
    /\ \A a \in Range(assignments) :
          a.last_calculated_at = 2 /\ a.calculated_effective_hours # NULL

\* ------------------------------------------------------------------------
\* commands/holidays.rs: create_holiday, update_holiday,
\* import_holidays_from_api
\* ------------------------------------------------------------------------

\* SELECT COUNT(*) FROM holidays WHERE country_id = ? AND id != ? AND
\* start_date <= ? AND end_date >= ?  (create_holiday has no id to exclude)
OverlappingCount(input, id) ==
    Cardinality({h \in Range(holidays) :
                    /\ h.country_id = input.country_id
                    /\ h.id # id
                    /\ DateLe(h.start_date, input.end_date)
                    /\ DateGe(h.end_date, input.start_date)})

\* the checks both commands make before they write; "" when they pass
ValidateHoliday(input, id) ==
    IF DateGt(input.start_date, input.end_date)
    THEN "Start date must be on or before end date"
    ELSE IF OverlappingCount(input, id) > 0
    THEN "Overlapping holidays are not allowed"
    ELSE IF \A c \in Range(countries) : c.id # input.country_id
    THEN "FOREIGN KEY constraint failed"
    ELSE ""

HolidayFrame ==
    /\ ncmd' = ncmd + 1
    /\ hist' = Touch(hist)
    /\ UNCHANGED <<planning_periods, people, projects, project_requirements, assignments,
                   absences, person_job_assignments, job_overhead_tasks,
                   run, del, clock, written>>

create_holiday(input) ==
    /\ HolidayFrame
    /\ LET err == ValidateHoliday(input, 0)
       IN /\ reply' = BatchReply("create_holiday", input, err)
          /\ holidays' = IF err # "" THEN holidays
                         ELSE Append(holidays, [id |-> NextRowId(holidays),
                                                country_id |-> input.country_id,
                                                start_date |-> input.start_date,
                                                end_date |-> input.end_date])

update_holiday(id, input) ==
    /\ HolidayFrame
    /\ LET err == ValidateHoliday(input, id)
       IN /\ reply' = BatchReply("update_holiday", input,
                                 IF err = "" /\ \A h \in Range(holidays) : h.id # id
                                 THEN "RowNotFound" ELSE err)
          /\ holidays' = IF err # "" THEN holidays
                         ELSE MapRows(LAMBDA h : IF h.id = id
                                                 THEN [h EXCEPT !.country_id = input.country_id,
                                                                !.start_date = input.start_date,
                                                                !.end_date = input.end_date]
                                                 ELSE h,
                                      holidays)

\* str::to_uppercase on the country codes that are entered
to_uppercase(country_code) ==
    CASE country_code = "de" -> "DE"
      [] country_code = "xx" -> "XX"
      [] OTHER -> country_code

\* the year of a date column as the range test on its text sees it (day 0
\* is 1 January 2024)
YearOf(date) == 2024 + (date.pos \div 366)

\* the inner loop: one single-day row per date the API returned, except
\* the dates found as a start_date before the loop began
RECURSIVE ImportDates(_, _, _, _)
ImportDates(rows, country_id, dates, existing_dates) ==
    IF dates = <<>> THEN rows
    ELSE IF dates[1] \in existing_dates
    THEN ImportDates(rows, country_id, Tail(dates), existing_dates)
    ELSE ImportDates(Append(rows, [id |-> NextRowId(rows), country_id |-> country_id,
                                   start_date |-> dates[1], end_date |-> dates[1]]),
                     country_id, Tail(dates), existing_dates)

\* the loop over the years; api[i] is what fetch_public_holidays answers to
\* the i-th call, and a failed call skips the year
RECURSIVE ImportYears(_, _, _, _)
ImportYears(rows, country_id, years, api) ==
    IF years = <<>> THEN rows
    ELSE IF ~api[1].ok THEN ImportYears(rows, country_id, Tail(years), Tail(api))
    ELSE LET existing_dates ==
                 {h.start_date : h \in {x \in Range(rows) :
                                           /\ x.country_id = country_id
                                           /\ YearOf(x.start_date) = years[1]}}
         IN ImportYears(ImportDates(rows, country_id, api[1].dates, existing_dates),
                        country_id, Tail(years), Tail(api))

import_holidays_from_api(country_code, years, api) ==
    /\ HolidayFrame
    /\ LET found == SelectSeq(countries, LAMBDA c : c.iso_code = to_uppercase(country_code))
       IN IF found = <<>>
          THEN /\ reply' = BatchReply("import_holidays_from_api", <<country_code, years>>,
                                      "Country not found in database")
               /\ UNCHANGED holidays
          ELSE /\ reply' = BatchReply("import_holidays_from_api", <<country_code, years>>, "")
               /\ holidays' = ImportYears(holidays, found[1].id, years, api)

\* holidays entered by hand: Friday to Saturday, Saturday to Sunday, the
\* Monday after, and a pair of dates in the wrong order
HolidayEdits ==
    {[country_id |-> 1, start_date |-> Date(d[1]), end_date |-> Date(d[2])] :
        d \in {<<4, 5>>, <<5, 6>>, <<7, 7>>, <<6, 5>>}}

\* what the public API may answer to one call: a failure, or up to MaxBatch
\* dates of the year
ApiAnswers ==
    {[ok |-> FALSE, dates |-> <<>>]}
        \cup {[ok |-> TRUE, dates |-> dates] : dates \in Batches({Date(5), Date(7)})}

InitHol ==
    /\ InitRunState
    /\ InitWorld("plain")
    /\ project_requirements = <<>>
    /\ assignments = <<>>

NextHol ==
    \/ \E input \in HolidayEdits : ncmd < MaxEdits /\ create_holiday(input)
    \/ \E id \in {1, 2}, input \in HolidayEdits : ncmd < MaxEdits /\ update_holiday(id, input)
    \/ \E hs \in Batches(HolidayInputs) : ncmd < MaxEdits /\ batch_create_holidays(hs)
    \/ \E country_code \in {"de", "xx"}, years \in {<<2024>>, <<2024, 2024>>} :
          \E api \in [1..Len(years) -> ApiAnswers] :
              ncmd < MaxEdits /\ import_holidays_from_api(country_code, years, api)

SpecHol == InitHol /\ [][NextHol]_vars

\* C29: after any sequence of create_holiday, update_holiday,
\* batch_create_holidays and import_holidays_from_api no two holidays of one
\* country overlap, so that calculate_person_available_hours deducts no
\* calendar day twice as a holiday.
C29_NoOverlappingHolidays ==
    /\ \A i, j \in 1..Len(holidays) :
          (i # j /\ holidays[i].country_id = holidays[j].country_id) =>
              ~(/\ holidays[i].start_date.pos <= holidays[j].end_date.pos
                /\ holidays[j].start_date.pos <= holidays[i].end_date.pos)
    /\ \A person \in Range(people), period \in Range(planning_periods) :
          calculate_person_available_hours(person, period).holiday_days <=
              Cardinality({d \in period.start_date.pos..period.end_date.pos :
                              \E h \in Range(holidays) :
                                  /\ h.country_id = person.country_id
                                  /\ h.start_date.pos <= d
                                  /\ d <= h.end_date.pos})

\* ------------------------------------------------------------------------
\* The capacity views right after an optimization
\* ------------------------------------------------------------------------

\* project 1 requires 0, 20 or 60 hours in period 1 and project 2 requires
\* 20; person 1 (30 h) on projects 1 and 2 and person 2 (20 h) on project 1,
\* each row on file or not, none calculated yet
InitAgree ==
    /\ InitRunState
    /\ InitWorld("plain")
    /\ \E h \in {Zero, R(20), R(60)} :
          project_requirements = <<Requirement(1, 1, 1, h, 10),
                                   Requirement(2, 2, 1, R(20), 10)>>
    /\ \E S \in SUBSET {1, 2, 3} :
          LET cands == <<<<1, 1>>, <<2, 1>>, <<1, 2>>>>
              ids   == SelectSeq(<<1, 2, 3>>, LAMBDA i : i \in S)
          IN assignments = [k \in 1..Len(ids) |->
                 NewAssignment(ids[k], cands[ids[k]][1], cands[ids[k]][2], 1, R(1))]

\* one optimization of period 1, and the views once it has returned
NextAgree ==
    \/ ncmd = 0 /\ OptimizeStart(1, 1)
    \/ ProcessProject(1)
    \/ TakeTimestamp(1)
    \/ PersistOne(1)
    \/ OptimizeReturn(1)
    \/ /\ run[1].pc = "ok"
       /\ reply = NoReply
       /\ Report("get_capacity_overview", <<1>>, get_capacity_overview(1, assignments))
    \/ /\ run[1].pc = "ok"
       /\ reply = NoReply
       /\ \E project_id \in {1, 2} :
             Report("get_project_staffing", <<project_id, 1>>,
                    get_project_staffing(project_id, 1, assignments))

SpecAgree == InitAgree /\ [][NextAgree]_vars

\* C30: right after a successful optimization, every project of the period
\* that has a requirement and assignments and is not in infeasible_projects
\* is reported is_viable by get_project_staffing and by
\* get_capacity_overview, which counts it not among under_staffed_projects;
\* a project that requires 0 hours included.
C30_ViewsAgreeWithOptimizer ==
    (run[1].pc = "ok" /\ reply.cmd \in {"get_project_staffing", "get_capacity_overview"}) =>
        LET feasible == {p \in Staffed(run[1]) : Listed(run[1], p) = {}}
        IN /\ \A s \in Staffings : s.project_id \in feasible => s.is_viable
           /\ reply.cmd = "get_capacity_overview" =>
                 reply.out.under_staffed_projects <=
                     Cardinality({s \in Staffings : s.project_id \notin feasible})

====
